---------------------------- MODULE Spec2Model ----------------------------
(***************************************************************************)
(* FacePass AI service: the frame-to-frame tracker (ai/tracker), the Track *)
(* entity (ai/types.py) and the identity-lock / confidence-smoothing /     *)
(* attendance-dedup state machine of FacePipeline.process (ai/pipeline.py).*)
(*                                                                         *)
(* Numbers.  Distances and confidences are Python floats in the source.    *)
(* Here a cosine distance is an integer number of hundredths (0.45 is 45), *)
(* a raw confidence 1.0 - d is 100 - d hundredths, and a smoothed          *)
(* confidence round(mean, 4) is an integer number of ten-thousandths       *)
(* (0.84 is 8400).  An IoU is a fixed-point number with FloatScale units   *)
(* to 1.0, computed by long division so that the 1e-6 of the denominator   *)
(* is kept.                                                                *)
(***************************************************************************)
EXTENDS Integers, Sequences, FiniteSets, TLC

VARIABLES
    frame_id,           \* FacePipeline.frame_id
    tracks,             \* BoTSORT.tracks, a list of Track
    next_id,            \* BoTSORT.next_id
    now,                \* the clock read by BoTSORT.update (abstract ticks)
    track_history,      \* FacePipeline.track_history: track_id -> list of raw confidences
    marked_attendance,  \* FacePipeline.marked_attendance
    cache,              \* FacePipeline.cache (EmbeddingCache._cache), a list of <<track_id, embedding>>, oldest first
    embed_interval,     \* settings.embed_interval, read from the environment at start-up
    output,             \* the list returned by the last process() call
    detections,         \* the detection list consumed by the last update
    events,             \* what the last process() call consumed and did, one entry per track it visited
    acked,              \* identities whose side-effect call returned 200 or 409 since the last reset
    retry,              \* <<track_id, identity>> whose side-effect call was rejected or failed, identity not acked since
    assigned,           \* every track_id handed out by the current tracker
    before,             \* track_id and bbox of the tracks the last update started from
    streak,             \* track_id -> the run of consecutive frames, up to the last one, in which
                        \* the track, unlocked at first, got a match to one identity within the threshold
    max_size,           \* EmbeddingCache._max_size
    op,                 \* the last call on the cache taken alone: what it was given and what it returned
    recency,            \* the keys of the cache taken alone, in the order of their last set or successful get
    lastset,            \* key -> the value of its last set, for the keys not evicted or removed since
    recovered,          \* whether an exception ended the process() call before the last one
    reset,              \* whether the last step, and the one before it, was reload_state, whether the last
                        \* frame was the first one after it, and which boxes were locked when it was called
    api,                \* the rows of the embeddings table, and the reply when the last step was a REST request
    inbox,              \* session -> the frames the transport holds for ws_handler's next receive_bytes()
    handler,            \* session -> where its ws_handler is, and its `processing` flag
    job,                \* session -> the process() call the executor runs for it, with the call's locals
    limbo,              \* the Track objects a running call still holds after the tracker let go of them
    tally               \* frames delivered, process() calls begun since the last reset, and
                        \* identity -> side-effect calls answered 200 or 409 since the last reset

vars == <<frame_id, tracks, next_id, now, track_history, marked_attendance, cache,
          embed_interval, output, detections, events, acked, retry, assigned,
          before, streak, max_size, op, recency, lastset, recovered, reset,
          api, inbox, handler, job, limbo, tally>>

\* the state of the websocket sessions and of the calls they have in flight
server == <<inbox, handler, job, limbo, tally>>

None == "None"          \* Python None, where the value is otherwise a string
NoConf == -1            \* Python None, where the value is otherwise a confidence

-----------------------------------------------------------------------------
(* Bounds of the model *)

MaxDet == 2          \* detections per frame
MaxTime == 2         \* frames per run with several faces
OneTime == 5         \* frames per run with a single face
LongTime == 12       \* frames per run with a single face that stays
MaxUpdates == 3      \* updates per run of the tracker alone
StreakCap == 7       \* consecutive matching frames counted in a run
MaxId == 5           \* largest track_id handed out by one tracker
MaxCap == 2          \* largest capacity of a cache taken alone
MaxSessions == 2     \* websocket sessions of one server
MaxArrivals == 3     \* frames delivered to one server, all sessions together
MaxInbox == 1        \* frames the transport holds for one session
MaxRows == 2         \* embeddings saved in a run

(* Program constants *)

EpsInv == 1000000            \* 1 / 1e-6, the epsilon of iou()'s denominator
SimThreshold == 45           \* settings.sim_threshold = 0.45, in hundredths
HistoryWindow == 5           \* len(history) > 5 -> pop(0)
FloatScale == 10000 * 10000
YawThreshold == 20          \* settings.yaw_threshold, degrees
PitchThreshold == -10       \* settings.pitch_threshold, degrees
EmbeddingDim == 512         \* the length /enroll and /recognize ask for  \* fixed-point units to 1.0 for IoU and cost

-----------------------------------------------------------------------------
(* Small helpers *)

Max(a, b) == IF a >= b THEN a ELSE b
Min(a, b) == IF a <= b THEN a ELSE b

RECURSIVE SumSeq(_)
SumSeq(s) == IF s = <<>> THEN 0 ELSE Head(s) + SumSeq(Tail(s))

RECURSIVE SumSet(_, _)
\* the sum of f[x] over the finite set S
SumSet(f, S) ==
    IF S = {} THEN 0
    ELSE LET x == CHOOSE y \in S : TRUE IN f[x] + SumSet(f, S \ {x})

RECURSIVE LongDiv(_, _, _, _)
\* acc followed by the next k decimal digits of r / d, for 0 <= r < d
LongDiv(r, d, k, acc) ==
    IF k = 0 THEN acc
    ELSE LongDiv((r * 10) % d, d, k - 1, acc * 10 + ((r * 10) \div d))

\* floor(n * FloatScale / d) for 0 <= n <= d, d > 0, without overflowing
FixDiv(n, d) == LongDiv(n % d, d, 8, n \div d)

-----------------------------------------------------------------------------
(* ai/tracker/matching.py *)

\* a box is <<x1, y1, x2, y2>>
area(a) == (a[3] - a[1]) * (a[4] - a[2])

inter(a, b) ==
    LET xA == Max(a[1], b[1])
        yA == Max(a[2], b[2])
        xB == Min(a[3], b[3])
        yB == Min(a[4], b[4])
    IN  Max(0, xB - xA) * Max(0, yB - yA)

\* inter / (areaA + areaB - inter + 1e-6), in FloatScale units
iou(a, b) ==
    FixDiv(inter(a, b) * EpsInv, (area(a) + area(b) - inter(a, b)) * EpsInv + 1)

\* a cost that is the IoU itself, the "1 -" forgotten
cost_iou(trks, dets) ==
    [p \in (1..Len(trks)) \X (1..Len(dets)) |-> iou(trks[p[1]].bbox, dets[p[2]])]

\* cost[i, j] = 1 - iou(t.bbox, d)
cost(trks, dets) ==
    [p \in (1..Len(trks)) \X (1..Len(dets)) |->
        FloatScale - iou(trks[p[1]].bbox, dets[p[2]])]

\* pairings that give every row a column but let two rows share one
Pairings_shared_column(n, m) ==
    {P \in SUBSET ((1..n) \X (1..m)) :
        /\ Cardinality(P) = Min(n, m)
        /\ \A p, q \in P : p # q => p[1] # q[1]}

\* the one-to-one pairings of min(n, m) rows with columns
Pairings(n, m) ==
    {P \in SUBSET ((1..n) \X (1..m)) :
        /\ Cardinality(P) = Min(n, m)
        /\ \A p, q \in P : p # q => (p[1] # q[1] /\ p[2] # q[2])}

\* an assignment with a cost gate: the pairs without any overlap are left out
lsa_gated(c, n, m) ==
    LET all == Pairings(n, m)
        total == [P \in all |-> SumSet(c, P)]
    IN  {{p \in P : c[p] < FloatScale} :
            P \in {P \in all : \A Q \in all : total[P] <= total[Q]}}

RECURSIVE Greedy(_, _, _, _)
\* row r and the rows after it each take the cheapest column still free
Greedy(c, r, n, free) ==
    IF r > n \/ free = {} THEN {}
    ELSE LET j == CHOOSE x \in free : \A y \in free : c[<<r, x>>] <= c[<<r, y>>]
         IN  {<<r, j>>} \cup Greedy(c, r + 1, n, free \ {j})

\* an assignment made row by row, each row taking its own cheapest column
lsa_greedy(c, n, m) == {Greedy(c, 1, n, 1..m)}

\* scipy.optimize.linear_sum_assignment: a pairing of minimal total cost; which
\* one among equals is the solver's own choice
linear_sum_assignment(c, n, m) ==
    LET all == Pairings(n, m)
        total == [P \in all |-> SumSet(c, P)]
    IN  {P \in all : \A Q \in all : total[P] <= total[Q]}

RECURSIVE ByRow(_)
\* the pairs in increasing row order, as (row_ind, col_ind) are returned
ByRow(P) ==
    IF P = {} THEN <<>>
    ELSE LET p == CHOOSE x \in P : \A y \in P : x[1] <= y[1]
         IN  <<p>> \o ByRow(P \ {p})

\* associate(tracks, detections): the possible results, each a list of <<r, c>>
associate(trks, dets) ==
    {ByRow(P) : P \in linear_sum_assignment(cost(trks, dets), Len(trks), Len(dets))}

-----------------------------------------------------------------------------
(* ai/types.py and ai/tracker/bot_sort.py *)

\* Track(track_id, bbox, last_seen); the attributes the pipeline adds later
\* (locked_id, locked_conf, unknown_logged) are absent on a new track
Track(id, box, t) ==
    [track_id |-> id, bbox |-> box, last_seen |-> t,
     embedding |-> None, last_embed_frame |-> 0,
     locked_id |-> None, locked_conf |-> NoConf, unknown_logged |-> FALSE]

RECURSIVE Spawn(_, _, _, _, _)
\* one new Track per detection whose index is not in used, ids counted up from id
Spawn(dets, used, i, id, t) ==
    IF i > Len(dets) THEN <<>>
    ELSE IF i \in used THEN Spawn(dets, used, i + 1, id, t)
    ELSE <<Track(id, dets[i], t)>> \o Spawn(dets, used, i + 1, id + 1, t)

\* a Track as BoTSORT.update would leave it if it built a new object for a
\* paired track instead of writing bbox and last_seen into the old one
Matched_respawned(trks, dets, pairs, t) ==
    [k \in 1..Len(pairs) |-> Track(trks[pairs[k][1]].track_id, dets[pairs[k][2]], t)]

\* the loop over zip(row, col): the paired tracks with bbox and last_seen replaced
Matched(trks, dets, pairs, t) ==
    [k \in 1..Len(pairs) |->
        [trks[pairs[k][1]] EXCEPT !.bbox = dets[pairs[k][2]], !.last_seen = t]]

\* an update that forgets self.next_id += 1
update_stale_counter(trks, nid, dets, pairs, t) ==
    IF trks = <<>>
    THEN [tracks |-> Spawn(dets, {}, 1, nid, t), next_id |-> nid]
    ELSE LET used == {pairs[k][2] : k \in 1..Len(pairs)}
         IN  [tracks |-> Matched(trks, dets, pairs, t) \o Spawn(dets, used, 1, nid, t),
              next_id |-> nid]

\* an update that keeps the tracks no detection was paired with
update_keeps_unpaired(trks, nid, dets, pairs, t) ==
    IF trks = <<>>
    THEN LET new == Spawn(dets, {}, 1, nid, t)
         IN  [tracks |-> new, next_id |-> nid + Len(new)]
    ELSE LET used == {pairs[k][2] : k \in 1..Len(pairs)}
             kept == {pairs[k][1] : k \in 1..Len(pairs)}
             new == Spawn(dets, used, 1, nid, t)
         IN  [tracks |-> Matched(trks, dets, pairs, t)
                         \o SelectSeq(trks, LAMBDA x :
                                \E i \in 1..Len(trks) : i \notin kept /\ trks[i] = x)
                         \o new,
              next_id |-> nid + Len(new)]

\* BoTSORT.update for one result of associate: the new tracks list and next_id
update_with(trks, nid, dets, pairs, t) ==
    IF trks = <<>>
    THEN LET new == Spawn(dets, {}, 1, nid, t)
         IN  [tracks |-> new, next_id |-> nid + Len(new)]
    ELSE LET used == {pairs[k][2] : k \in 1..Len(pairs)}
             new == Spawn(dets, used, 1, nid, t)
         IN  [tracks |-> Matched(trks, dets, pairs, t) \o new,
              next_id |-> nid + Len(new)]

\* BoTSORT.update: every result the associator's choice allows
update(trks, nid, dets, t) ==
    IF trks = <<>> THEN {update_with(trks, nid, dets, <<>>, t)}
    ELSE {update_with(trks, nid, dets, pairs, t) : pairs \in associate(trks, dets)}

-----------------------------------------------------------------------------
(* ai/recognizer/embedding_cache.py *)

_DEFAULT_MAX_SIZE == 256

RECURSIVE Without(_, _)
\* the cache list without the entry of key k
Without(c, k) ==
    IF c = <<>> THEN <<>>
    ELSE IF Head(c)[1] = k THEN Without(Tail(c), k)
    ELSE <<Head(c)>> \o Without(Tail(c), k)

CacheKeys(c) == {c[i][1] : i \in 1..Len(c)}

\* self._cache.get(track_id)
Lookup(c, k) ==
    LET hit == {i \in 1..Len(c) : c[i][1] = k}
    IN  IF hit = {} THEN None ELSE c[CHOOSE i \in hit : TRUE][2]

\* a set that refreshes a key it holds without storing the new value
CacheSet_keep_old(c, cap, k, v) ==
    LET held == Lookup(c, k)
        c1 == Without(c, k) \o <<(<<k, IF held = None THEN v ELSE held>>)>>
    IN  IF Len(c1) > cap THEN Tail(c1) ELSE c1

\* a set that evicts the newest entry, popitem() for popitem(last=False)
CacheSet_evict_newest(c, cap, k, v) ==
    LET c1 == Without(c, k) \o <<(<<k, v>>)>>
    IN  IF Len(c1) > cap THEN SubSeq(c1, 1, Len(c1) - 1) ELSE c1

\* a set that evicts one entry too late, `> max_size + 1` for `> max_size`
CacheSet_late_eviction(c, cap, k, v) ==
    LET c1 == Without(c, k) \o <<(<<k, v>>)>>
    IN  IF Len(c1) > cap + 1 THEN Tail(c1) ELSE c1

\* EmbeddingCache.set: move_to_end / insert, then evict the oldest when over max_size
CacheSet(c, cap, k, v) ==
    LET c1 == Without(c, k) \o <<(<<k, v>>)>>
    IN  IF Len(c1) > cap THEN Tail(c1) ELSE c1


\* a get that leaves the order alone
CacheGet_no_refresh(c, k) == [value |-> Lookup(c, k), cache |-> c]

\* EmbeddingCache.get: the value or None, and move_to_end on a hit
CacheGet(c, k) ==
    IF Lookup(c, k) = None THEN [value |-> None, cache |-> c]
    ELSE [value |-> Lookup(c, k),
          cache |-> Without(c, k) \o <<(<<k, Lookup(c, k)>>)>>]

\* EmbeddingCache.remove
CacheRemove(c, k) == Without(c, k)

-----------------------------------------------------------------------------
(* The collaborators' answers, as process() sees them *)

Unused == "unused"                      \* the collaborator was not called

\* cosine_search(): None, a SearchResult, or an exception (SessionLocal() and the
\* NumPy fallback's repository read are outside any try)
NoSearch == [kind |-> Unused, student_id |-> None, d |-> 0]
SearchNone == [kind |-> "none", student_id |-> None, d |-> 0]
SearchRaise == [kind |-> "raise", student_id |-> None, d |-> 0]
SearchMatch(s, d) == [kind |-> "match", student_id |-> s, d |-> d]

\* requests.post(): status 200, 409, another status, or an exception
HttpOutcomes == {"200", "409", "500", "exc"}

-----------------------------------------------------------------------------
(* ai/pipeline.py, FacePipeline.process: the body of the loop over the tracks *)

\* x2 <= x1 or y2 <= y1
\* a guard that lets the boxes of width or height 0 through
degenerate_strict(b) == b[3] < b[1] \/ b[4] < b[2]

degenerate(b) == b[3] <= b[1] \/ b[4] <= b[2]

\* a gate that waits one frame more, > for >=
embed_due_late(t, fid, ei) == fid - t.last_embed_frame > ei

\* self.frame_id - t.last_embed_frame >= settings.embed_interval
embed_due(t, fid, ei) == fid - t.last_embed_frame >= ei

\* an unlock test that forgets the distance
unlocks_none_only(m) == m.kind = "none"

\* an unlock test that lets a search without result pass
unlocks_dist_only(m) == m.kind = "match" /\ m.d > SimThreshold

\* match is None or match.d > settings.sim_threshold
unlocks(m) == m.kind = "none" \/ m.d > SimThreshold

\* a lock test that leaves the threshold itself out
matches_strict(m) == m.kind = "match" /\ m.d < SimThreshold

\* match is not None and match.d <= settings.sim_threshold
matches(m) == m.kind = "match" /\ m.d <= SimThreshold

\* raw_conf = 1.0 - float(match.d), in hundredths
raw_conf(m) == 100 - m.d

\* a window that drops the newest value, pop() for pop(0)
push_history_drop_newest(history, raw) ==
    LET h == Append(history, raw)
    IN  IF Len(h) > HistoryWindow THEN SubSeq(h, 1, Len(h) - 1) ELSE h

\* history.append(raw_conf); if len(history) > 5: history.pop(0)
push_history(history, raw) ==
    LET h == Append(history, raw)
    IN  IF Len(h) > HistoryWindow THEN Tail(h) ELSE h

\* round(a / n) to the nearest integer, ties to even, as Python's round()
RoundDiv(a, n) ==
    LET q == a \div n
        r == a % n
    IN  IF 2 * r < n THEN q
        ELSE IF 2 * r > n THEN q + 1
        ELSE IF q % 2 = 0 THEN q ELSE q + 1

\* a mean over the window size, whatever the history holds
smooth_by_window(history) == RoundDiv(100 * SumSeq(history), HistoryWindow)

\* round(sum(history) / len(history), 4), in ten-thousandths
smooth(history) == RoundDiv(100 * SumSeq(history), Len(history))

\* no look at the dedup set
needs_call_always(student, marked) == TRUE

\* student_id not in self.marked_attendance
needs_call(student, marked) == student \notin marked

\* an insertion on every response, whatever its status
marks_any_status(resp) == resp \in {"200", "409", "500"}

\* status_code == 200 or status_code == 409: self.marked_attendance.add(student_id)
marks(resp) == resp \in {"200", "409"}

\* self.track_history.setdefault(track_id, [])
setdefault(hist, id) == IF id \in DOMAIN hist THEN hist ELSE (id :> <<>>) @@ hist

\* behavior/engagement.py: the level read from the pitch and the yaw; the
\* "medium" limits are 1.5 times the thresholds
compute_engagement(pitch, yaw) ==
    LET abs_yaw == IF yaw < 0 THEN 0 - yaw ELSE yaw
    IN  IF 2 * abs_yaw > 3 * YawThreshold \/ 2 * pitch < 3 * PitchThreshold THEN "low"
        ELSE IF abs_yaw > YawThreshold \/ pitch < PitchThreshold THEN "medium"
        ELSE "high"

\* estimate_pose() when it returns: the angles of a crop in which the face
\* mesh finds no landmark
estimate_pose == [pitch |-> 0, yaw |-> 0, roll |-> 0]

\* a record that carries the padded crop instead of the track's box
Record_padded(t, student, conf, status) ==
    [track_id |-> t.track_id,
     bbox |-> <<Max(0, t.bbox[1] - 30), Max(0, t.bbox[2] - 30),
                t.bbox[3] + 30, t.bbox[4] + 30>>,
     student_id |-> student, confidence |-> conf, status |-> status,
     pitch |-> estimate_pose.pitch, yaw |-> estimate_pose.yaw,
     roll |-> estimate_pose.roll,
     engagement |-> compute_engagement(estimate_pose.pitch, estimate_pose.yaw)]

\* the dict appended to the output list
Record(t, student, conf, status) ==
    [track_id |-> t.track_id, bbox |-> t.bbox, student_id |-> student,
     confidence |-> conf, status |-> status,
     pitch |-> estimate_pose.pitch, yaw |-> estimate_pose.yaw,
     roll |-> estimate_pose.roll,
     engagement |-> compute_engagement(estimate_pose.pitch, estimate_pose.yaw)]

\* a stage 3 that stores the embedding and forgets last_embed_frame
stage3_keeps_stamp(t, c, fid, ei, e) ==
    IF embed_due(t, fid, ei) /\ e # None
    THEN [track |-> [t EXCEPT !.embedding = e],
          cache |-> CacheSet(c, _DEFAULT_MAX_SIZE, t.track_id, e)]
    ELSE [track |-> t, cache |-> c]

\* a stage 3 that clears the track's embedding when the extractor returns None
stage3_clears_on_failure(t, c, fid, ei, e) ==
    IF embed_due(t, fid, ei) /\ e # None
    THEN [track |-> [t EXCEPT !.embedding = e, !.last_embed_frame = fid],
          cache |-> CacheSet(c, _DEFAULT_MAX_SIZE, t.track_id, e)]
    ELSE IF embed_due(t, fid, ei)
    THEN [track |-> [t EXCEPT !.embedding = None], cache |-> c]
    ELSE [track |-> t, cache |-> c]

\* Stage 3: the track and the cache after the embedding step; e is embed()'s answer
stage3(t, c, fid, ei, e) ==
    IF embed_due(t, fid, ei) /\ e # None
    THEN [track |-> [t EXCEPT !.embedding = e, !.last_embed_frame = fid],
          cache |-> CacheSet(c, _DEFAULT_MAX_SIZE, t.track_id, e)]
    ELSE [track |-> t, cache |-> c]

\* a re-validation that reports the confidence of the frame's own match
revalidate_raw(t, m) ==
    IF t.embedding # None /\ ~unlocks(m)
    THEN [track |-> [t EXCEPT !.locked_conf = 100 * raw_conf(m)],
          student_id |-> t.locked_id, confidence |-> 100 * raw_conf(m),
          status |-> "recognized"]
    ELSE IF t.embedding # None
    THEN [track |-> [t EXCEPT !.locked_id = None, !.locked_conf = NoConf],
          student_id |-> None, confidence |-> NoConf, status |-> "unknown"]
    ELSE [track |-> t, student_id |-> t.locked_id,
          confidence |-> t.locked_conf, status |-> "recognized"]

\* a re-validation whose unlock also forgets that the unknown face was logged
revalidate_forgets_unknown(t, m) ==
    IF t.embedding # None /\ unlocks(m)
    THEN [track |-> [t EXCEPT !.locked_id = None, !.locked_conf = NoConf,
                              !.unknown_logged = FALSE],
          student_id |-> None, confidence |-> NoConf, status |-> "unknown"]
    ELSE [track |-> t, student_id |-> t.locked_id,
          confidence |-> t.locked_conf, status |-> "recognized"]

\* Stage 4, locked branch: re-validate the locked identity
revalidate(t, m) ==
    IF t.embedding # None
    THEN IF unlocks(m)
         THEN [track |-> [t EXCEPT !.locked_id = None, !.locked_conf = NoConf],
               student_id |-> None, confidence |-> NoConf, status |-> "unknown"]
         ELSE [track |-> t, student_id |-> t.locked_id,
               confidence |-> t.locked_conf, status |-> "recognized"]
    ELSE [track |-> t, student_id |-> t.locked_id,
          confidence |-> t.locked_conf, status |-> "recognized"]

\* Stage 4, unlocked branch with a match within the threshold: smooth and lock
lock(t, hist, m) ==
    LET history == push_history(setdefault(hist, t.track_id)[t.track_id], raw_conf(m))
        confidence == smooth(history)
    IN  [track |-> [t EXCEPT !.locked_id = m.student_id, !.locked_conf = confidence],
         hist |-> [setdefault(hist, t.track_id) EXCEPT ![t.track_id] = history],
         student_id |-> m.student_id, confidence |-> confidence,
         status |-> "recognized"]

\* Stage 4: identity matching for one track; m is cosine_search()'s answer and
\* h the answer of requests.post(), each Unused when the call is not made
stage4(t, hist, marked, m, h) ==
    IF t.locked_id # None
    THEN LET r == revalidate(t, m)
         IN  [track |-> r.track, hist |-> hist, marked |-> marked,
              student_id |-> r.student_id, confidence |-> r.confidence,
              status |-> r.status, called |-> FALSE, unknown_event |-> FALSE]
    ELSE IF t.embedding # None /\ matches(m)
    THEN LET l == lock(t, hist, m)
             call == needs_call(m.student_id, marked)
         IN  [track |-> l.track, hist |-> l.hist,
              marked |-> IF call /\ marks(h) THEN marked \cup {m.student_id} ELSE marked,
              student_id |-> l.student_id, confidence |-> l.confidence,
              status |-> l.status, called |-> call, unknown_event |-> FALSE]
    ELSE IF t.embedding # None
    THEN [track |-> [t EXCEPT !.unknown_logged = TRUE], hist |-> hist, marked |-> marked,
          student_id |-> None, confidence |-> NoConf, status |-> "unknown",
          called |-> FALSE, unknown_event |-> ~t.unknown_logged]
    ELSE [track |-> t, hist |-> hist, marked |-> marked,
          student_id |-> None, confidence |-> NoConf, status |-> "unknown",
          called |-> FALSE, unknown_event |-> FALSE]

\* what the collaborators may answer to the calls the loop body makes for track
\* t; w holds the answers the run draws from (embeddings, searches, https)
EmbedAnswers(t, fid, ei, w) ==
    IF embed_due(t, fid, ei) THEN w.embeddings \cup {None} ELSE {Unused}

SearchAnswers(t, w) ==
    IF t.embedding # None THEN w.searches ELSE {NoSearch}

HttpAnswers(t, marked, m, w) ==
    IF t.locked_id = None /\ t.embedding # None /\ matches(m)
       /\ needs_call(m.student_id, marked)
    THEN w.https ELSE {Unused}

\* the track's embedding, last_embed_frame and unknown_logged when the loop body
\* reached it
Prior(t) ==
    [embedding_was |-> t.embedding, embed_frame_was |-> t.last_embed_frame,
     unknown_was |-> t.unknown_logged]

\* the record of one visit of the loop body, kept for the properties
Event(i, t, e, m, h, r, st) ==
    [idx |-> i, track_id |-> t.track_id, skipped |-> FALSE,
     was_locked |-> t.locked_id, was_conf |-> t.locked_conf,
     embedding |-> t.embedding, embed_frame |-> t.last_embed_frame,
     embed |-> e, search |-> m, http |-> h, pose |-> "ok",
     called |-> r.called, unknown_event |-> r.unknown_event,
     acked_before |-> m.student_id \in st.acked,
     retry_before |-> <<t.track_id, m.student_id>> \in st.retry,
     hist_before |-> IF t.track_id \in DOMAIN st.hist THEN st.hist[t.track_id] ELSE <<>>]

SkipEvent(i, t, hist) ==
    [idx |-> i, track_id |-> t.track_id, skipped |-> TRUE,
     was_locked |-> t.locked_id, was_conf |-> t.locked_conf,
     embedding |-> t.embedding, embed_frame |-> t.last_embed_frame,
     embed |-> Unused, search |-> NoSearch, http |-> Unused, pose |-> Unused,
     called |-> FALSE, unknown_event |-> FALSE,
     acked_before |-> FALSE, retry_before |-> FALSE,
     hist_before |-> IF t.track_id \in DOMAIN hist THEN hist[t.track_id] ELSE <<>>]

\* the runs of consecutive matching frames after track t got the answer m; a
\* run is counted up to cap frames (none is kept when cap is 0)
Streak(runs, t, m, cap) ==
    LET id == t.track_id
        within == t.embedding # None /\ m.kind = "match" /\ m.d <= SimThreshold
        raw == 100 - m.d
        rest == [k \in DOMAIN runs \ {id} |-> runs[k]]
    IN  IF cap = 0 THEN runs
        ELSE IF within /\ id \in DOMAIN runs /\ runs[id].student_id = m.student_id
        THEN (id :> [runs[id] EXCEPT !.n = Min(@ + 1, cap), !.sum = @ + raw]) @@ rest
        ELSE IF within /\ id \notin DOMAIN runs /\ t.locked_id = None
        THEN (id :> [n |-> 1, sum |-> raw, first |-> raw,
                     student_id |-> m.student_id]) @@ rest
        ELSE rest

\* one pass of the loop body for track i with the answers e, m, h.  st is the
\* pipeline's state inside process(): tracks, hist, marked, cache, the output
\* list so far, and whether an exception has left the try block
body(st, i, fid, e, m, h, w) ==
    LET t == st.tracks[i]
        s3 == stage3(t, st.cache, fid, embed_interval, e)
        s4 == stage4(s3.track, st.hist, st.marked, m, h)
        ok == s4.called /\ h \in {"200", "409"}
        ko == s4.called /\ h \notin {"200", "409"}
        ev == Event(i, s3.track, e, m, h, s4, st) @@ Prior(t)
        run == Streak(st.streak, s3.track, m, w.memory)
    IN  IF m.kind = "raise"
        THEN [st EXCEPT !.tracks[i] = s3.track, !.cache = s3.cache,
                        !.aborted = TRUE, !.streak = run,
                        !.events = Append(@, [ev EXCEPT !.called = FALSE,
                                                        !.unknown_event = FALSE,
                                                        !.pose = Unused])]
        ELSE [st EXCEPT !.tracks[i] = s4.track, !.cache = s3.cache,
                        !.hist = s4.hist, !.marked = s4.marked,
                        !.out = Append(@, Record(s4.track, s4.student_id,
                                                 s4.confidence, s4.status)),
                        !.events = Append(@, ev), !.streak = run,
                        !.acked = IF ok THEN @ \cup {m.student_id} ELSE @,
                        !.retry = IF ok THEN {p \in @ : p[2] # m.student_id}
                                  ELSE IF ko THEN @ \cup {<<t.track_id, m.student_id>>}
                                  ELSE @]

\* Stage 5 raising (estimate_pose() imports cv2, converts the crop and builds
\* its face mesh outside its try): s is the state after stages 3 and 4, the
\* record is not appended to the output list st.out
pose_raises(st, s) ==
    [s EXCEPT !.out = st.out, !.aborted = TRUE,
              !.events[Len(s.events)].pose = "raise"]

\* the states after the loop body for track i, one per combination of answers
visit(st, i, fid, w) ==
    LET t == st.tracks[i]
        t3(e) == stage3(t, st.cache, fid, embed_interval, e).track
        done == UNION {UNION {{body(st, i, fid, e, m, h, w) :
                                 h \in HttpAnswers(t3(e), st.marked, m, w)} :
                             m \in SearchAnswers(t3(e), w)} :
                       e \in EmbedAnswers(t, fid, embed_interval, w)}
    IN  IF degenerate(t.bbox)
        THEN {[st EXCEPT !.events = Append(@, SkipEvent(i, t, st.hist) @@ Prior(t)),
                         !.streak = [k \in DOMAIN @ \ {t.track_id} |-> @[k]]]}
        ELSE IF "raise" \in w.poses
        THEN done \cup {pose_raises(st, s) : s \in {r \in done : ~r.aborted}}
        ELSE done

RECURSIVE loop(_, _, _, _)
\* for t in tracks: ..., from track i on; an exception ends the loop
loop(st, i, fid, w) ==
    IF i > Len(st.tracks) \/ st.aborted THEN {st}
    ELSE UNION {loop(s, i + 1, fid, w) : s \in visit(st, i, fid, w)}

\* a handler that returns the records collected before the exception
returned_partial(s) == s.out

\* return output, or return [] from the except clause
returned(s) == IF s.aborted THEN <<>> ELSE s.out

\* a pruning that is skipped when the frame has no track
prune_some(hist, trks) ==
    IF trks = <<>> THEN hist
    ELSE [id \in DOMAIN hist \cap {trks[k].track_id : k \in 1..Len(trks)} |-> hist[id]]

\* the pruning loop that ends process(): drop the history of tracks not in the list
prune(hist, trks) ==
    LET ids == {trks[k].track_id : k \in 1..Len(trks)}
    IN  [id \in DOMAIN hist \cap ids |-> hist[id]]

-----------------------------------------------------------------------------
(* The inputs of the model *)

\* detector boxes: two overlapping faces, one inside the first, one far away,
\* and a degenerate box (int() of the detector's floats can close a box)
Boxes == {<<0, 0, 2, 2>>, <<1, 1, 3, 3>>, <<0, 0, 2, 1>>, <<4, 4, 6, 6>>,
          <<0, 0, 0, 2>>}

\* the boxes of the frames fed to the whole pipeline
FrameBoxes == {<<0, 0, 2, 2>>, <<4, 4, 6, 6>>, <<0, 0, 0, 2>>}

\* the frames of a single face that stays or closes to a degenerate box
OneFace == {<<(<<0, 0, 2, 2>>)>>, <<(<<0, 0, 0, 2>>)>>}

\* detector.detect(): at most MaxDet boxes
DetLists(B) == UNION {[1..n -> B] : n \in 0..MaxDet}

\* the values settings.embed_interval is started with (15 is the default)
EmbedIntervals == {1, 2, 15}

-----------------------------------------------------------------------------
(* The state machine *)

\* no call on the cache yet
NoOp == [kind |-> "none", key |-> 0, value |-> None, result |-> None,
         keys |-> {}, lru |-> 0, expect |-> None]

\* no reload_state() yet
NoReset == [done |-> FALSE, twice |-> FALSE, first |-> FALSE, locked |-> {}]

\* the last step was not a REST request
NoReply == [endpoint |-> "none", status |-> 0, len |-> 0, save |-> Unused,
            reloaded |-> FALSE]

\* the websocket sessions of a server
Sessions == 1..MaxSessions

\* no process() call in the executor for the session
NoCall == [pc |-> "none", late |-> FALSE, refs |-> <<>>, i |-> 0,
           branch |-> "none", student_id |-> None, confidence |-> NoConf,
           out |-> <<>>]

\* a ws_handler that has not been started
NoHandler == [pc |-> "new", processing |-> FALSE]

NoTally == [arrived |-> 0, since |-> 0, posts |-> <<>>]

\* a server after start-up: the pipeline is built, nobody is connected
Quiet ==
    /\ api = [rows |-> 0, reply |-> NoReply]
    /\ inbox = [s \in Sessions |-> <<>>]
    /\ handler = [s \in Sessions |-> NoHandler]
    /\ job = [s \in Sessions |-> NoCall]
    /\ limbo = <<>>
    /\ tally = NoTally

Init ==
    /\ frame_id = 0
    /\ tracks = <<>>
    /\ next_id = 0
    /\ now = 0
    /\ track_history = <<>>
    /\ marked_attendance = {}
    /\ cache = <<>>
    /\ embed_interval \in EmbedIntervals
    /\ output = <<>>
    /\ detections = <<>>
    /\ events = <<>>
    /\ acked = {}
    /\ retry = {}
    /\ assigned = {}
    /\ before = <<>>
    /\ streak = <<>>
    /\ max_size = _DEFAULT_MAX_SIZE
    /\ op = NoOp
    /\ recency = <<>>
    /\ lastset = <<>>
    /\ recovered = FALSE
    /\ reset = NoReset
    /\ Quiet

TrackIds(trks) == {trks[k].track_id : k \in 1..Len(trks)}

Boxed(trks) == [k \in 1..Len(trks) |-> [track_id |-> trks[k].track_id, bbox |-> trks[k].bbox]]

\* FacePipeline.process(frame): detection, tracking, the loop over the tracks,
\* the pruning of the history; an exception inside returns []
process(w) ==
    /\ frame_id < w.horizon
    /\ \E dets \in w.frames :
       \E u \in update(tracks, next_id, dets, now + 1) :
          /\ u.next_id <= MaxId + 1
          /\ \E s \in loop([tracks |-> u.tracks, hist |-> track_history,
                            marked |-> marked_attendance, cache |-> cache,
                            out |-> <<>>, events |-> <<>>, acked |-> acked,
                            retry |-> retry, streak |-> streak,
                            aborted |-> FALSE], 1, frame_id + 1, w) :
                /\ frame_id' = frame_id + 1
                /\ now' = now + 1
                /\ tracks' = s.tracks
                /\ next_id' = u.next_id
                /\ track_history' = IF s.aborted THEN s.hist ELSE prune(s.hist, s.tracks)
                /\ marked_attendance' = s.marked
                /\ cache' = s.cache
                /\ output' = returned(s)
                /\ detections' = dets
                /\ events' = s.events
                /\ acked' = s.acked
                /\ retry' = IF s.aborted THEN s.retry
                            ELSE {p \in s.retry :
                                    \E k \in 1..Len(s.tracks) : s.tracks[k].track_id = p[1]}
                /\ assigned' = assigned \cup TrackIds(u.tracks)
                /\ before' = Boxed(tracks)
                /\ streak' = [k \in DOMAIN s.streak \cap
                                    {s.events[j].track_id : j \in 1..Len(s.events)}
                                |-> s.streak[k]]
    /\ recovered' = \E k \in DOMAIN events :
                        events[k].search.kind = "raise" \/ events[k].pose = "raise"
    /\ reset' = [done |-> FALSE, twice |-> FALSE, first |-> reset.done,
                 locked |-> IF reset.done THEN reset.locked ELSE {}]
    /\ api' = [api EXCEPT !.reply = NoReply]
    /\ UNCHANGED <<embed_interval, max_size, op, recency, lastset>>
    /\ UNCHANGED server

\* what reload_state() leaves in the variables kept for the properties
Reloaded ==
    /\ output' = <<>>
    /\ detections' = <<>>
    /\ events' = <<>>
    /\ acked' = {}
    /\ retry' = {}
    /\ assigned' = {}
    /\ before' = <<>>
    /\ streak' = <<>>
    /\ reset' = [done |-> TRUE, twice |-> reset.done, first |-> FALSE,
                 locked |-> {tracks[k].bbox :
                               k \in {j \in 1..Len(tracks) : tracks[j].locked_id # None}}]
    /\ recovered' = FALSE
    /\ UNCHANGED <<frame_id, now, cache, embed_interval, max_size, op, recency, lastset>>

\* a reset that keeps the tracker
reload_state_keeps_tracker ==
    /\ marked_attendance' = {}
    /\ track_history' = <<>>
    /\ UNCHANGED <<tracks, next_id>>
    /\ Reloaded

\* a reset that takes one identity out of the dedup set, pop() for clear()
reload_state_pop_one ==
    /\ marked_attendance' = {x \in marked_attendance :
                                \E y \in marked_attendance : y # x /\ x = "8"}
    /\ track_history' = <<>>
    /\ tracks' = <<>>
    /\ next_id' = 0
    /\ Reloaded

\* FacePipeline.reload_state(): clear the dedup set and the history, new tracker
reload_state ==
    /\ marked_attendance' = {}
    /\ track_history' = <<>>
    /\ tracks' = <<>>
    /\ next_id' = 0
    /\ output' = <<>>
    /\ detections' = <<>>
    /\ events' = <<>>
    /\ acked' = {}
    /\ retry' = {}
    /\ assigned' = {}
    /\ before' = <<>>
    /\ streak' = <<>>
    /\ reset' = [done |-> TRUE, twice |-> reset.done, first |-> FALSE,
                 locked |-> {tracks[k].bbox :
                               k \in {j \in 1..Len(tracks) : tracks[j].locked_id # None}}]
    /\ recovered' = FALSE
    /\ UNCHANGED <<frame_id, now, cache, embed_interval, max_size, op, recency, lastset>>

\* the ids of the tracker's Track objects that a running call holds
Held ==
    UNION {{job[s].refs[p].id : p \in {q \in DOMAIN job[s].refs : job[s].refs[q].at = 0}} :
           s \in Sessions}

\* the name in limbo of the Track with track_id id that the tracker lets go of
NameOf(id) ==
    LET top == IF DOMAIN limbo = {} THEN 0
               ELSE CHOOSE n \in DOMAIN limbo : \A m \in DOMAIN limbo : m <= n
    IN  top + 1 + id

\* the tracker lets go of its Track objects other than those with an id in
\* kept (self.tracks is rebound to a list without them, or self.tracker to a
\* new tracker): the calls that hold them keep them, by reference
Released(kept) ==
    LET gone == Held \ kept
        old(id) == tracks[CHOOSE k \in 1..Len(tracks) : tracks[k].track_id = id]
    IN  [limbo |-> [n \in DOMAIN limbo \cup {NameOf(id) : id \in gone} |->
                       IF n \in DOMAIN limbo THEN limbo[n]
                       ELSE old(CHOOSE id \in gone : NameOf(id) = n)],
         job |-> [s \in Sessions |->
                     [job[s] EXCEPT !.refs =
                         [p \in DOMAIN @ |->
                             IF @[p].at = 0 /\ @[p].id \in gone
                             THEN [id |-> @[p].id, at |-> NameOf(@[p].id)]
                             ELSE @[p]]]]]

\* get_pipeline().reload_state(), called by a REST handler on the event loop
\* whatever the executor's threads are doing
reload_pipeline ==
    /\ reload_state
    /\ limbo' = Released({}).limbo
    /\ job' = Released({}).job
    /\ tally' = [tally EXCEPT !.since = 0, !.posts = <<>>]
    /\ UNCHANGED <<inbox, handler>>

\* POST /reload-embeddings
reload_embeddings ==
    /\ reload_pipeline
    /\ api' = [api EXCEPT !.reply = [endpoint |-> "reload", status |-> 200, len |-> 0,
                                     save |-> Unused, reloaded |-> TRUE]]

\* a request that leaves the pipeline and the sessions alone
Untouched ==
    /\ UNCHANGED <<frame_id, tracks, next_id, now, track_history, marked_attendance,
                   cache, embed_interval, output, detections, events, acked, retry,
                   assigned, before, streak, max_size, op, recency, lastset,
                   recovered, reset>>
    /\ UNCHANGED server

\* an /enroll that resets the pipeline before it saves, whatever the save does
enroll_reset_first ==
    \E n \in {128, EmbeddingDim}, saved \in {"ok", "raise"} :
        IF n # EmbeddingDim
        THEN /\ api' = [api EXCEPT !.reply = [endpoint |-> "enroll", status |-> 422,
                                              len |-> n, save |-> Unused,
                                              reloaded |-> FALSE]]
             /\ Untouched
        ELSE /\ saved = "ok" => api.rows < MaxRows
             /\ reload_pipeline
             /\ api' = [rows |-> IF saved = "ok" THEN api.rows + 1 ELSE api.rows,
                        reply |-> [endpoint |-> "enroll",
                                   status |-> IF saved = "ok" THEN 200 ELSE 500,
                                   len |-> n, save |-> saved, reloaded |-> FALSE]]

\* POST /enroll/{student_id}: 422 on a wrong size; else save the embedding and
\* reset the pipeline, 500 when the save (or anything after it) raises
enroll ==
    \E n \in {128, EmbeddingDim}, saved \in {"ok", "raise"} :
        IF n # EmbeddingDim
        THEN /\ api' = [api EXCEPT !.reply = [endpoint |-> "enroll", status |-> 422,
                                              len |-> n, save |-> Unused,
                                              reloaded |-> FALSE]]
             /\ Untouched
        ELSE IF saved = "raise"
        THEN /\ api' = [api EXCEPT !.reply = [endpoint |-> "enroll", status |-> 500,
                                              len |-> n, save |-> saved,
                                              reloaded |-> FALSE]]
             /\ Untouched
        ELSE /\ api.rows < MaxRows
             /\ reload_pipeline
             /\ api' = [rows |-> api.rows + 1,
                        reply |-> [endpoint |-> "enroll", status |-> 200, len |-> n,
                                   save |-> saved, reloaded |-> TRUE]]

\* up to MaxDet faces in front of the camera, for a few frames
Faces ==
    [frames |-> DetLists(FrameBoxes), horizon |-> MaxTime,
     embeddings |-> {"e1"},
     searches |-> {SearchNone, SearchRaise, SearchMatch("7", 20),
                   SearchMatch("8", 20), SearchMatch("7", 60)},
     https |-> HttpOutcomes, poses |-> {"ok"}, memory |-> 0]

Next == process(Faces) \/ reload_embeddings

Spec == Init /\ [][Next]_vars

\* one face in front of the camera, re-embedded on every frame
OneInit == Init /\ embed_interval = 1

OneWorld ==
    [frames |-> OneFace, horizon |-> OneTime,
     embeddings |-> {"e1"},
     searches |-> {SearchNone, SearchMatch("7", 20), SearchMatch("7", 45),
                   SearchMatch("7", 60)},
     https |-> HttpOutcomes, poses |-> {"ok"}, memory |-> 0]

OneNext == process(OneWorld) \/ reload_embeddings

SpecOne == OneInit /\ [][OneNext]_vars

\* one face that stays, matched or not on every frame, for long enough to lock
\* six times; the runs of consecutive matching frames are kept
Steady ==
    [frames |-> {<<(<<0, 0, 2, 2>>)>>}, horizon |-> LongTime,
     embeddings |-> {"e1"},
     searches |-> {SearchMatch("7", 20), SearchMatch("7", 45), SearchMatch("7", 60)},
     https |-> {"200"}, poses |-> {"ok"}, memory |-> StreakCap]

SteadyNext == process(Steady) \/ reload_embeddings

SpecSteady == OneInit /\ [][SteadyNext]_vars

\* faces in front of a camera whose collaborators fail: the embedder returns
\* None, the search and the pose estimator raise, the attendance call raises
FaultBoxes == {<<0, 0, 2, 2>>, <<4, 4, 6, 6>>}

Faulty ==
    [frames |-> DetLists(FaultBoxes), horizon |-> MaxTime,
     embeddings |-> {"e1"},
     searches |-> {SearchNone, SearchRaise, SearchMatch("7", 20)},
     https |-> {"200", "exc"}, poses |-> {"ok", "raise"}, memory |-> 0]

FaultsNext == process(Faulty) \/ reload_embeddings

SpecFaults == OneInit /\ [][FaultsNext]_vars

\* BoTSORT.update(detections) on a tracker of its own
TrackerUpdate ==
    /\ now < MaxUpdates
    /\ \E dets \in DetLists(Boxes) :
       \E u \in update(tracks, next_id, dets, now + 1) :
          /\ u.next_id <= MaxId + 1
          /\ tracks' = u.tracks
          /\ next_id' = u.next_id
          /\ now' = now + 1
          /\ detections' = dets
          /\ assigned' = assigned \cup TrackIds(u.tracks)
          /\ before' = Boxed(tracks)
    /\ UNCHANGED <<frame_id, track_history, marked_attendance, cache, embed_interval,
                   output, events, acked, retry, streak, max_size, op, recency,
                   lastset, recovered, reset, api>>
    /\ UNCHANGED server

TrackerNext == TrackerUpdate

TrackerInit == Init /\ embed_interval = 15

SpecTracker == TrackerInit /\ [][TrackerNext]_vars

\* an EmbeddingCache taken alone: set, get and remove in any order
CacheIds == 0..MaxCap                   \* one key more than the largest capacity
CacheValues == {"e1", "e2"}

\* the key of keys whose last set or successful get is the oldest
Oldest(order, keys) ==
    LET at == {i \in 1..Len(order) : order[i] \in keys}
    IN  order[CHOOSE i \in at : \A j \in at : i <= j]

Touch(order, k) == SelectSeq(order, LAMBDA x : x # k) \o <<k>>

Forget(f, ks) == [x \in DOMAIN f \ ks |-> f[x]]

CalledWith(kind, k, v, result) ==
    [kind |-> kind, key |-> k, value |-> v, result |-> result,
     keys |-> CacheKeys(cache),
     lru |-> IF cache = <<>> THEN k ELSE Oldest(recency, CacheKeys(cache)),
     expect |-> IF k \in DOMAIN lastset THEN lastset[k] ELSE None]

Idle == UNCHANGED <<frame_id, tracks, next_id, now, track_history, marked_attendance,
                    embed_interval, output, detections, events, acked, retry,
                    assigned, before, streak, max_size, recovered, reset,
                    api, inbox, handler, job, limbo, tally>>

cache_set ==
    /\ \E k \in CacheIds, v \in CacheValues :
          /\ cache' = CacheSet(cache, max_size, k, v)
          /\ op' = CalledWith("set", k, v, None)
          /\ recency' = Touch(recency, k)
          /\ lastset' = Forget((k :> v) @@ lastset,
                               (CacheKeys(cache) \cup {k}) \ CacheKeys(cache'))
    /\ Idle

cache_get ==
    /\ \E k \in CacheIds :
          /\ cache' = CacheGet(cache, k).cache
          /\ op' = CalledWith("get", k, None, CacheGet(cache, k).value)
          /\ recency' = IF CacheGet(cache, k).value # None THEN Touch(recency, k)
                        ELSE recency
    /\ UNCHANGED lastset
    /\ Idle

cache_remove ==
    /\ \E k \in CacheIds :
          /\ cache' = CacheRemove(cache, k)
          /\ op' = CalledWith("remove", k, None, None)
          /\ lastset' = Forget(lastset, {k})
    /\ UNCHANGED recency
    /\ Idle

CacheNext == cache_set \/ cache_get \/ cache_remove

CacheInit ==
    /\ frame_id = 0
    /\ tracks = <<>>
    /\ next_id = 0
    /\ now = 0
    /\ track_history = <<>>
    /\ marked_attendance = {}
    /\ cache = <<>>
    /\ embed_interval = 15
    /\ output = <<>>
    /\ detections = <<>>
    /\ events = <<>>
    /\ acked = {}
    /\ retry = {}
    /\ assigned = {}
    /\ before = <<>>
    /\ streak = <<>>
    /\ max_size \in 1..MaxCap
    /\ op = NoOp
    /\ recency = <<>>
    /\ lastset = <<>>
    /\ recovered = FALSE
    /\ reset = NoReset
    /\ Quiet

SpecCache == CacheInit /\ [][CacheNext]_vars

-----------------------------------------------------------------------------
(* app/websocket.py: the sessions of one server.  Every ws_handler submits  *)
(* process() of the one shared pipeline to the thread pool, whose threads   *)
(* run side by side; a call is cut where it waits for a collaborator.       *)

\* two cameras on the same face, re-embedded on every frame
Streams ==
    [frames |-> {<<(<<0, 0, 2, 2>>)>>}, horizon |-> MaxArrivals,
     embeddings |-> {"e1"},
     searches |-> {SearchMatch("7", 20)},
     https |-> {"200", "500"}, poses |-> {"ok"}, memory |-> 0]

\* what the server's steps leave alone: the settings and what is kept of the
\* calls of a pipeline used by one caller
Aside == <<embed_interval, detections, events, acked, retry, assigned, before, streak,
           max_size, op, recency, lastset, recovered, reset>>

\* the Track object behind a reference of a call's list
Obj(r) ==
    IF r.at = 0 THEN tracks[CHOOSE k \in 1..Len(tracks) : tracks[k].track_id = r.id]
    ELSE limbo[r.at]

\* the tracker's list and the limbo after an assignment to the object behind r
PutTracks(r, t) ==
    IF r.at = 0
    THEN [k \in 1..Len(tracks) |-> IF tracks[k].track_id = r.id THEN t ELSE tracks[k]]
    ELSE tracks

PutLimbo(r, t) == IF r.at = 0 THEN limbo ELSE [limbo EXCEPT ![r.at] = t]

\* the call goes on to the next track of its list, or to the pruning
Advance(c) ==
    IF c.i + 1 > Len(c.refs) THEN [c EXCEPT !.pc = "prune", !.i = c.i + 1]
    ELSE [c EXCEPT !.pc = "loop", !.i = c.i + 1]

\* output.append(...) and on to the next track
Appended(c, rec) == Advance([c EXCEPT !.out = Append(@, rec)])

\* manager.connect(ws): the session is accepted and its handler waits for a frame
connect(s) ==
    /\ handler[s].pc = "new"
    /\ handler' = [handler EXCEPT ![s] = [pc |-> "receive", processing |-> FALSE]]
    /\ UNCHANGED <<frame_id, tracks, next_id, now, track_history, marked_attendance,
                   cache, output, api, inbox, job, limbo, tally>>
    /\ UNCHANGED Aside

\* receive_bytes() raises WebSocketDisconnect: the handler ends
disconnect(s) ==
    /\ handler[s].pc = "receive" /\ inbox[s] = <<>>
    /\ handler' = [handler EXCEPT ![s] = [pc |-> "closed", processing |-> FALSE]]
    /\ UNCHANGED <<frame_id, tracks, next_id, now, track_history, marked_attendance,
                   cache, output, api, inbox, job, limbo, tally>>
    /\ UNCHANGED Aside

\* the client sends a frame; the transport holds it until the handler's next
\* receive_bytes().  late: process() is running for the session's previous frame
frame_arrives(s) ==
    /\ handler[s].pc \in {"receive", "await"}
    /\ Len(inbox[s]) < MaxInbox
    /\ tally.arrived < MaxArrivals
    /\ \E image \in {"jpeg", "junk"} :
          inbox' = [inbox EXCEPT ![s] = Append(@, [image |-> image,
                                                   late |-> handler[s].pc = "await"])]
    /\ tally' = [tally EXCEPT !.arrived = @ + 1]
    /\ UNCHANGED <<frame_id, tracks, next_id, now, track_history, marked_attendance,
                   cache, output, api, handler, job, limbo>>
    /\ UNCHANGED Aside

\* ws_handler, one turn of its loop up to run_in_executor: receive_bytes(), the
\* test of `processing`, imdecode(), and the submission of pipeline.process
ws_receive(s) ==
    /\ handler[s].pc = "receive" /\ inbox[s] # <<>>
    /\ inbox' = [inbox EXCEPT ![s] = Tail(@)]
    /\ IF handler[s].processing
       THEN UNCHANGED <<handler, job>>
       ELSE IF Head(inbox[s]).image = "junk"
       THEN UNCHANGED <<handler, job>>
       ELSE /\ handler' = [handler EXCEPT ![s] = [pc |-> "await", processing |-> TRUE]]
            /\ job' = [job EXCEPT ![s] = [NoCall EXCEPT !.pc = "start",
                                                        !.late = Head(inbox[s]).late]]
    /\ UNCHANGED <<frame_id, tracks, next_id, now, track_history, marked_attendance,
                   cache, output, api, limbo, tally>>
    /\ UNCHANGED Aside

\* process(), from its first line to tracker.update(): the frame counter, the
\* detection, the tracker's update; the call's list is the tracker's new list
begin(s, w) ==
    /\ job[s].pc = "start"
    /\ \E dets \in w.frames :
       \E u \in update(tracks, next_id, dets, now + 1) :
          /\ u.next_id <= MaxId + 1
          /\ frame_id' = frame_id + 1
          /\ now' = now + 1
          /\ tracks' = u.tracks
          /\ next_id' = u.next_id
          /\ limbo' = Released(TrackIds(u.tracks)).limbo
          /\ job' = [Released(TrackIds(u.tracks)).job EXCEPT ![s] =
                        [@ EXCEPT !.pc = IF u.tracks = <<>> THEN "prune" ELSE "loop",
                                  !.i = 1,
                                  !.refs = [k \in 1..Len(u.tracks) |->
                                               [id |-> u.tracks[k].track_id, at |-> 0]]]]
    /\ tally' = [tally EXCEPT !.since = @ + 1]
    /\ UNCHANGED <<track_history, marked_attendance, cache, output, api, inbox, handler>>
    /\ UNCHANGED Aside

\* the loop body for the call's next track, up to the call of cosine_search():
\* the degenerate test, stage 3 against the frame counter as it is now, the
\* test of the lock that chooses the branch of stage 4; without an embedding
\* the record is appended at once
enter(s, w) ==
    /\ job[s].pc = "loop"
    /\ LET c == job[s]
           r == c.refs[c.i]
           t == Obj(r)
       IN  IF degenerate(t.bbox)
           THEN /\ job' = [job EXCEPT ![s] = Advance(c)]
                /\ UNCHANGED <<tracks, limbo, cache>>
           ELSE \E e \in EmbedAnswers(t, frame_id, embed_interval, w) :
                   LET s3 == stage3(t, cache, frame_id, embed_interval, e)
                       s4 == stage4(s3.track, track_history, marked_attendance,
                                    NoSearch, Unused)
                   IN  /\ tracks' = PutTracks(r, s3.track)
                       /\ limbo' = PutLimbo(r, s3.track)
                       /\ cache' = s3.cache
                       /\ job' = [job EXCEPT ![s] =
                                    IF s3.track.embedding # None
                                    THEN [c EXCEPT !.pc = "search",
                                                   !.branch = IF s3.track.locked_id # None
                                                              THEN "locked" ELSE "unlocked"]
                                    ELSE Appended(c, Record(s4.track, s4.student_id,
                                                            s4.confidence, s4.status))]
    /\ UNCHANGED <<frame_id, next_id, now, track_history, marked_attendance, output,
                   api, inbox, handler, tally>>
    /\ UNCHANGED Aside

\* cosine_search() answers: the rest of stage 4 up to requests.post(), on the
\* track as it is now; an exception ends the call with []
search_returns(s, w) ==
    /\ job[s].pc = "search"
    /\ \E m \in w.searches :
       LET c == job[s]
           r == c.refs[c.i]
           t == Obj(r)
           kept == revalidate(t, m)
           l == lock(t, track_history, m)
       IN  IF m.kind = "raise"
           THEN /\ job' = [job EXCEPT ![s] = [c EXCEPT !.pc = "done", !.out = <<>>]]
                /\ UNCHANGED <<tracks, limbo, track_history>>
           ELSE IF c.branch = "locked"
           THEN /\ tracks' = PutTracks(r, kept.track)
                /\ limbo' = PutLimbo(r, kept.track)
                /\ job' = [job EXCEPT ![s] =
                             Appended(c, Record(kept.track, kept.student_id,
                                                kept.confidence, kept.status))]
                /\ UNCHANGED track_history
           ELSE IF matches(m)
           THEN /\ tracks' = PutTracks(r, l.track)
                /\ limbo' = PutLimbo(r, l.track)
                /\ track_history' = l.hist
                /\ job' = [job EXCEPT ![s] =
                             IF needs_call(m.student_id, marked_attendance)
                             THEN [c EXCEPT !.pc = "post", !.student_id = l.student_id,
                                            !.confidence = l.confidence]
                             ELSE Appended(c, Record(l.track, l.student_id,
                                                     l.confidence, l.status))]
           ELSE /\ tracks' = PutTracks(r, [t EXCEPT !.unknown_logged = TRUE])
                /\ limbo' = PutLimbo(r, [t EXCEPT !.unknown_logged = TRUE])
                /\ job' = [job EXCEPT ![s] =
                             Appended(c, Record(t, None, NoConf, "unknown"))]
                /\ UNCHANGED track_history
    /\ UNCHANGED <<frame_id, next_id, now, marked_attendance, cache, output, api,
                   inbox, handler, tally>>
    /\ UNCHANGED Aside

\* requests.post() answers: the identity joins the dedup set on 200 and 409,
\* then stage 5 and the record
post_returns(s, w) ==
    /\ job[s].pc = "post"
    /\ \E h \in w.https :
       LET c == job[s]
           student == c.student_id
           n == IF student \in DOMAIN tally.posts THEN tally.posts[student] ELSE 0
       IN  /\ marked_attendance' = IF marks(h) THEN marked_attendance \cup {student}
                                   ELSE marked_attendance
           /\ tally' = IF marks(h) THEN [tally EXCEPT !.posts = (student :> n + 1) @@ @]
                       ELSE tally
           /\ job' = [job EXCEPT ![s] =
                        Appended(c, Record(Obj(c.refs[c.i]), student, c.confidence,
                                           "recognized"))]
    /\ UNCHANGED <<frame_id, tracks, next_id, now, track_history, cache, output, api,
                   inbox, handler, limbo>>
    /\ UNCHANGED Aside

\* the pruning loop over the call's own list, and return output
finish(s) ==
    /\ job[s].pc = "prune"
    /\ track_history' = prune(track_history,
                              [p \in DOMAIN job[s].refs |-> [track_id |-> job[s].refs[p].id]])
    /\ job' = [job EXCEPT ![s] = [@ EXCEPT !.pc = "done"]]
    /\ UNCHANGED <<frame_id, tracks, next_id, now, marked_attendance, cache, output,
                   api, inbox, handler, limbo, tally>>
    /\ UNCHANGED Aside

\* ws_handler after run_in_executor: send_json(results), processing = False,
\* back to receive_bytes(); the call's list is dropped
ws_send(s) ==
    /\ handler[s].pc = "await" /\ job[s].pc = "done"
    /\ output' = job[s].out
    /\ handler' = [handler EXCEPT ![s] = [pc |-> "receive", processing |-> FALSE]]
    /\ job' = [job EXCEPT ![s] = NoCall]
    /\ limbo' = [n \in {m \in DOMAIN limbo :
                          \E x \in Sessions \ {s} : \E p \in DOMAIN job[x].refs :
                              job[x].refs[p].at = m} |-> limbo[n]]
    /\ UNCHANGED <<frame_id, tracks, next_id, now, track_history, marked_attendance,
                   cache, api, inbox, tally>>
    /\ UNCHANGED Aside

ServerNext ==
    \/ \E s \in Sessions :
          \/ connect(s) \/ disconnect(s) \/ frame_arrives(s) \/ ws_receive(s)
          \/ begin(s, Streams) \/ enter(s, Streams) \/ search_returns(s, Streams)
          \/ post_returns(s, Streams) \/ finish(s) \/ ws_send(s)
    \/ reload_embeddings

SpecServer == OneInit /\ [][ServerNext]_vars

\* one camera served frame by frame, and the REST requests of the operator
Desk ==
    [frames |-> DetLists(FaultBoxes), horizon |-> MaxTime,
     embeddings |-> {"e1"},
     searches |-> {SearchNone, SearchMatch("7", 20)},
     https |-> {"200", "500"}, poses |-> {"ok"}, memory |-> 0]

\* one face in front of the camera, re-embedded every second or third frame
GateInit == Init /\ embed_interval \in {2, 3}

GateNext == process(OneWorld) \/ reload_embeddings

SpecGate == GateInit /\ [][GateNext]_vars

RestNext == process(Desk) \/ reload_embeddings \/ enroll

SpecRest == OneInit /\ [][RestNext]_vars

-----------------------------------------------------------------------------
(* What the properties speak of *)

\* the records the last process() call returned for track id
RecordsOf(id) == {output[j] : j \in {i \in 1..Len(output) : output[i].track_id = id}}

HistOf(id) == IF id \in DOMAIN track_history THEN track_history[id] ELSE <<>>

BeforeIds == {before[k].track_id : k \in 1..Len(before)}

\* an exception ended the last process() call
Aborted ==
    \E k \in DOMAIN events :
        events[k].search.kind = "raise" \/ events[k].pose = "raise"

\* the search answered with a match at a distance within the threshold
Within(e) == e.search.kind = "match" /\ e.search.d <= SimThreshold

\* the visit found the track unlocked and locked it / found it locked
LockVisit(e) == e.was_locked = None /\ Within(e)
KeepVisit(e) == e.was_locked # None /\ Within(e)

Unlocked(e) ==
    /\ tracks[e.idx].locked_id = None
    /\ tracks[e.idx].locked_conf = NoConf
    /\ \A r \in RecordsOf(e.track_id) :
          r.student_id = None /\ r.confidence = NoConf /\ r.status = "unknown"
    /\ ~Aborted => RecordsOf(e.track_id) # {}

StillLocked(e) ==
    /\ tracks[e.idx].locked_id = e.was_locked
    /\ \A r \in RecordsOf(e.track_id) :
          r.student_id = e.was_locked /\ r.status = "recognized"
    /\ ~Aborted => RecordsOf(e.track_id) # {}

\* the last five at most of a list of raw confidences, and their mean rounded
\* to four decimals (in ten-thousandths)
Window(h) == IF Len(h) > 5 THEN SubSeq(h, Len(h) - 4, Len(h)) ELSE h
Mean4(h) == RoundDiv(100 * SumSeq(h), Len(h))

-----------------------------------------------------------------------------
(* Attendance dedup *)

\* C1: on one pipeline, between two resets, once the side-effect call for an
\* identity has returned 200 or 409, no later match of a track, in the same
\* frame or a later one, issues the call for that identity again.
C1_AtMostOnce ==
    \A k \in DOMAIN events : events[k].called => ~events[k].acked_before

C1_Witness ==
    \E k \in DOMAIN events :
        LockVisit(events[k]) /\ events[k].acked_before /\ ~events[k].called

\* C2: a call that is rejected or fails leaves the identity out of the dedup
\* set, and a later frame in which the same track gets the same match within
\* the threshold issues the call again.
C2_RetryAfterFailure ==
    /\ \A k \in DOMAIN events :
          (/\ events[k].called
           /\ events[k].http \notin {"200", "409"}
           /\ \A j \in DOMAIN events :
                 (events[j].called /\ events[j].search.student_id = events[k].search.student_id)
                    => events[j].http \notin {"200", "409"})
          => events[k].search.student_id \notin marked_attendance
    /\ \A k \in DOMAIN events :
          (Within(events[k]) /\ events[k].retry_before) => events[k].called

-----------------------------------------------------------------------------
(* Lock hysteresis *)

\* C3: for a locked track with an embedding, one frame whose search returns a
\* distance strictly above the threshold drops the lock: locked identity and
\* confidence become absent, and the frame's record for the track has no
\* identity, no confidence and status "unknown".
C3_UnlockOnHighDistance ==
    \A k \in DOMAIN events :
        (/\ events[k].was_locked # None
         /\ events[k].search.kind = "match"
         /\ events[k].search.d > SimThreshold) => Unlocked(events[k])

C3_Witness ==
    \E k \in DOMAIN events :
        /\ events[k].was_locked # None
        /\ events[k].search.kind = "match"
        /\ events[k].search.d > SimThreshold
        /\ RecordsOf(events[k].track_id) # {}

\* C4 as claimed: for a locked track, a frame whose search returns absent does
\* not unlock; the record still reports the locked identity as "recognized".
C4_AbsentKeepsLock ==
    \A k \in DOMAIN events :
        (events[k].was_locked # None /\ events[k].search.kind = "none")
            => StillLocked(events[k])

\* C4 as amended: for a locked track, a frame whose search returns absent drops
\* the lock as a distance above the threshold does (identity and confidence
\* absent, record "unknown"); the track stays locked, and is reported with the
\* locked identity as "recognized", only when the search returns a match
\* within the threshold.
C4_AbsentUnlocks ==
    \A k \in DOMAIN events :
        /\ (events[k].was_locked # None /\ events[k].search.kind = "none")
              => Unlocked(events[k])
        /\ KeepVisit(events[k]) => StillLocked(events[k])

C4_Witness ==
    \E k \in DOMAIN events :
        /\ events[k].was_locked # None
        /\ events[k].search.kind = "none"
        /\ RecordsOf(events[k].track_id) # {}

-----------------------------------------------------------------------------
(* Confidence smoothing *)

\* the track of visit e reports confidence c and holds it as locked confidence
Reports(e, c) ==
    /\ tracks[e.idx].locked_conf = c
    /\ RecordsOf(e.track_id) # {}
    /\ \A r \in RecordsOf(e.track_id) : r.confidence = c

\* C5 as claimed: a track matched within the threshold on five consecutive
\* frames, unlocked at the first, reports on the fifth the mean of the five
\* raw confidences, and on the sixth the mean of the second to the sixth.
C5_MeanOfFiveFrames ==
    \A id \in DOMAIN streak :
        /\ streak[id].n = 5 =>
              \A r \in RecordsOf(id) : r.confidence = RoundDiv(100 * streak[id].sum, 5)
        /\ streak[id].n = 6 =>
              \A r \in RecordsOf(id) :
                  r.confidence = RoundDiv(100 * (streak[id].sum - streak[id].first), 5)

\* C5 as amended: a raw confidence enters the history only at a frame whose
\* within-threshold match finds the track unlocked; the confidence reported
\* there is the mean, rounded to four decimals, of the last five at most of
\* the raw confidences of such frames (0.84 for 0.9, 0.8, 0.85, 0.95, 0.7, the
\* sixth evicting the first), and a matching frame that finds the track locked
\* reports the confidence stored when the lock was taken.
C5_MeanOfLockFrames ==
    /\ smooth(<<90, 80, 85, 95, 70>>) = 8400
    /\ \A k \in DOMAIN events :
          /\ LockVisit(events[k]) =>
                LET h == Window(Append(events[k].hist_before, 100 - events[k].search.d))
                IN  HistOf(events[k].track_id) = h /\ Reports(events[k], Mean4(h))
          /\ KeepVisit(events[k]) =>
                /\ HistOf(events[k].track_id) = events[k].hist_before
                /\ Reports(events[k], events[k].was_conf)

\* the sixth lock of a track, with unequal raw confidences in its window
C5_Witness ==
    \E k \in DOMAIN events :
        /\ LockVisit(events[k])
        /\ Len(events[k].hist_before) = 5
        /\ \E i \in 1..5 : events[k].hist_before[i] # 100 - events[k].search.d
        /\ RecordsOf(events[k].track_id) # {}

\* C6: while a track stays locked, each re-validation search matching within
\* the threshold, every such frame reports the confidence stored when the lock
\* was taken, and re-validation appends nothing to the track's history.
C6_LockedConfidenceFrozen ==
    \A k \in DOMAIN events :
        KeepVisit(events[k]) =>
            /\ tracks[events[k].idx].locked_id = events[k].was_locked
            /\ tracks[events[k].idx].locked_conf = events[k].was_conf
            /\ \A r \in RecordsOf(events[k].track_id) :
                  r.confidence = events[k].was_conf /\ r.student_id = events[k].was_locked
            /\ HistOf(events[k].track_id) = events[k].hist_before
            /\ events[k].was_conf = Mean4(events[k].hist_before)

\* a re-validation whose own match would give another confidence
C6_Witness ==
    \E k \in DOMAIN events :
        /\ KeepVisit(events[k])
        /\ events[k].was_conf # 100 * (100 - events[k].search.d)
        /\ RecordsOf(events[k].track_id) # {}

\* C7: the confidence history of every track_id holds at most 5 values, and
\* appending a sixth removes the oldest.
C7_HistoryBounded ==
    /\ \A id \in DOMAIN track_history : Len(track_history[id]) <= 5
    /\ \A k \in DOMAIN events :
          (LockVisit(events[k]) /\ Len(events[k].hist_before) = 5) =>
              HistOf(events[k].track_id) =
                  Append(Tail(events[k].hist_before), 100 - events[k].search.d)

\* a sixth value appended to a history whose oldest and newest values differ
C7_Witness ==
    \E k \in DOMAIN events :
        /\ LockVisit(events[k])
        /\ Len(events[k].hist_before) = 5
        /\ events[k].hist_before[1] # events[k].hist_before[5]
        /\ events[k].hist_before[1] # 100 - events[k].search.d

-----------------------------------------------------------------------------
(* Tracker *)

\* the tracks the last update created: the list is the matched tracks, then
\* the new ones
Created ==
    {tracks[k].track_id : k \in (Min(Len(before), Len(detections)) + 1)..Len(tracks)}

\* C8: every track an update creates gets a track_id greater than every
\* track_id assigned before, dropped tracks included, and no two tracks of
\* the store share a track_id.
C8_IdsNeverReused ==
    [][/\ \A k \in (Min(Len(tracks), Len(detections')) + 1)..Len(tracks') :
             \A a \in assigned : tracks'[k].track_id > a
       /\ \A j, k \in 1..Len(tracks') :
             j # k => tracks'[j].track_id # tracks'[k].track_id]_vars

\* a track created after another one was dropped
C8_Witness ==
    \E id \in Created : \E a \in assigned : a < id /\ a \notin BeforeIds

\* the last update found tracks, none of which overlaps any detection
NoOverlap ==
    /\ before # <<>>
    /\ \A i \in 1..Len(before) : \A j \in 1..Len(detections) :
          inter(before[i].bbox, detections[j]) = 0

\* C9 as claimed: when no detection overlaps any existing track, every
\* detection gets a fresh track_id and no previous track_id is returned.
C9_AllNew ==
    NoOverlap => TrackIds(tracks) \cap BeforeIds = {}

\* C9 as amended: when no detection overlaps any existing track, the update
\* still pairs min(#tracks, #detections) detections with existing tracks,
\* which keep their track_ids; only the remaining detections get fresh ones.
C9_PairedWithoutOverlap ==
    NoOverlap =>
        /\ Len(tracks) = Len(detections)
        /\ Cardinality(TrackIds(tracks) \cap BeforeIds) = Min(Len(before), Len(detections))
        /\ Cardinality(Created) = Len(detections) - Min(Len(before), Len(detections))
        /\ Created \cap BeforeIds = {}

C9_Witness ==
    /\ NoOverlap
    /\ Len(detections) > Len(before)
    /\ \E j \in 1..Len(detections) : ~degenerate(detections[j])

\* the last update got one detection, whose box is the box of track i alone
OnlyTwin(i) ==
    /\ Len(detections) = 1
    /\ before[i].bbox = detections[1]
    /\ \A j \in 1..Len(before) : j # i => before[j].bbox # detections[1]

KeptAlone(i) ==
    Len(tracks) = 1 /\ tracks[1].track_id = before[i].track_id

\* C10 as claimed: a single detection whose bbox is that of one existing track
\* alone is paired with that track: it keeps its track_id, no track is created.
C10_TwinMatched ==
    \A i \in 1..Len(before) : OnlyTwin(i) => KeptAlone(i)

\* C10 as amended: a single detection of positive width and height whose bbox
\* is that of one existing track alone is paired with that track: it keeps its
\* track_id and no track is created.
C10_PositiveTwinMatched ==
    \A i \in 1..Len(before) :
        (OnlyTwin(i) /\ ~degenerate(detections[1])) => KeptAlone(i)

C10_Witness ==
    \E i \in 2..Len(before) :
        /\ OnlyTwin(i)
        /\ ~degenerate(detections[1])
        /\ inter(before[1].bbox, detections[1]) > 0

-----------------------------------------------------------------------------
(* Embedding cache *)

\* the last call was a set of a key the full cache did not hold
Inserted ==
    op.kind = "set" /\ op.key \notin op.keys /\ Cardinality(op.keys) = max_size

\* the last call was a successful get, or a set of a key the cache held
Refreshed ==
    \/ op.kind = "get" /\ op.result # None
    \/ op.kind = "set" /\ op.key \in op.keys

\* C11: in a cache of capacity N >= 1 holding N keys, set() of a key it does
\* not hold removes exactly the key whose last set or successful get is the
\* oldest, keeps the other N - 1 keys and the new one, and a get() of the
\* evicted key then returns absent.
C11_EvictsLeastRecent ==
    Inserted =>
        /\ op.lru \in op.keys
        /\ CacheKeys(cache) = (op.keys \ {op.lru}) \cup {op.key}
        /\ Len(cache) = max_size
        /\ CacheGet(cache, op.lru).value = None

\* a set that evicts one key of two and keeps the other
C11_Witness ==
    /\ Inserted
    /\ max_size >= 2
    /\ op.lru \notin CacheKeys(cache)
    /\ op.keys \cap CacheKeys(cache) # {}

\* C12: a get() that finds key k and a set() of a key k the cache holds both
\* leave the set of keys as it was and make k the most recently used entry, so
\* that in a full cache of capacity >= 2 the next eviction removes another key.
C12_RefreshMakesNewest ==
    Refreshed =>
        /\ CacheKeys(cache) = op.keys
        /\ cache[Len(cache)][1] = op.key
        /\ (max_size >= 2 /\ Len(cache) = max_size) =>
              \A k \in CacheIds \ op.keys : \A v \in CacheValues :
                  op.key \in CacheKeys(CacheSet(cache, max_size, k, v))

\* a successful get of the key that was next to be evicted
C12_Witness ==
    /\ op.kind = "get" /\ op.result # None
    /\ op.lru = op.key
    /\ max_size >= 2 /\ Len(cache) = max_size

\* C13: get(k) returns the value of the most recent set(k, v) when k was set
\* and not evicted or removed since, and absent otherwise; get(k) right after
\* set(k, v) returns v.
C13_GetReturnsLastSet ==
    /\ op.kind = "get" => op.result = op.expect
    /\ op.kind = "set" => CacheGet(cache, op.key).value = op.value
    /\ \A k \in CacheIds :
          CacheGet(cache, k).value = IF k \in DOMAIN lastset THEN lastset[k] ELSE None

\* a get of a key set before and absent now
C13_Witness ==
    /\ op.kind = "get" /\ op.result = None
    /\ \E i \in 1..Len(recency) : recency[i] = op.key
    /\ cache # <<>>

-----------------------------------------------------------------------------
(* Reset *)

\* what reload_state() and process() read and write of the pipeline
pipeline == <<marked_attendance, track_history, tracks, next_id, frame_id, cache>>

\* C14: right after reload_state() the dedup set, the history map and the
\* track store are empty; on the next frame every track is a new, unlocked
\* track, and its record has no identity unless a search of that frame
\* matches it within the threshold.
C14_ResetForgetsLocks ==
    /\ reset.done =>
          marked_attendance = {} /\ DOMAIN track_history = {} /\ tracks = <<>>
    /\ reset.first =>
          /\ before = <<>>
          /\ \A k \in DOMAIN events : events[k].was_locked = None
          /\ \A j \in 1..Len(output) :
                output[j].student_id # None =>
                    \E k \in DOMAIN events :
                        /\ events[k].track_id = output[j].track_id
                        /\ Within(events[k])
                        /\ events[k].search.student_id = output[j].student_id

\* a box locked before the reset comes back and is reported without identity
C14_Witness ==
    /\ reset.first
    /\ \E j \in 1..Len(output) :
          output[j].bbox \in reset.locked /\ output[j].student_id = None

\* C15: reload_state() called twice in a row leaves the dedup set, the history
\* map, the track store, the id counter, the frame counter and the cache as
\* the first call left them.
C15_ResetIdempotent ==
    [][(reset.done /\ reset'.done) => UNCHANGED pipeline]_vars

\* two resets in a row after frames were processed
C15_Witness ==
    reset.twice /\ frame_id > 0 /\ cache # <<>>

-----------------------------------------------------------------------------
(* Degenerate boxes and failures *)

\* the box has no width or no height
Flat(b) == b[3] <= b[1] \/ b[4] <= b[2]

\* the visit of the last frame to the track at position k, if the loop got there
VisitsOf(k) == {events[j] : j \in {i \in DOMAIN events : events[i].idx = k}}

\* the loop reached position k, unless an exception ended it before
Reached(k) == ~Aborted => VisitsOf(k) # {}

\* C16: in a frame where a track's bbox is degenerate, no record is emitted
\* for it, the track stays in the store, its embedding, last_embed_frame,
\* lock and history are as they were, and the other tracks of the frame are
\* visited and, when the frame returns its records, emitted.
C16_DegenerateSkipped ==
    /\ \A j \in 1..Len(detections) : \E k \in 1..Len(tracks) :
          tracks[k].bbox = detections[j]
    /\ \A k \in 1..Len(tracks) :
          IF Flat(tracks[k].bbox)
          THEN /\ RecordsOf(tracks[k].track_id) = {}
               /\ Reached(k)
               /\ \A e \in VisitsOf(k) :
                     /\ e.skipped
                     /\ tracks[k].embedding = e.embedding
                     /\ tracks[k].last_embed_frame = e.embed_frame
                     /\ tracks[k].locked_id = e.was_locked
                     /\ tracks[k].locked_conf = e.was_conf
                     /\ HistOf(tracks[k].track_id) = e.hist_before
          ELSE /\ Reached(k)
               /\ ~Aborted => RecordsOf(tracks[k].track_id) # {}

\* a locked track whose box closes stays locked, unreported, next to a track
\* that is reported
C16_Witness ==
    \E k \in 1..Len(tracks) :
        /\ Flat(tracks[k].bbox)
        /\ tracks[k].locked_id # None
        /\ HistOf(tracks[k].track_id) # <<>>
        /\ output # <<>>


\* the positions of the tracks whose box has a width and a height
Solid == {k \in 1..Len(tracks) : ~Flat(tracks[k].bbox)}

\* the last process() call returned one record per solid track, in their order
Complete ==
    /\ Len(output) = Cardinality(Solid)
    /\ \A k \in Solid : Cardinality(RecordsOf(tracks[k].track_id)) = 1
    /\ \A i, j \in 1..Len(output) : i < j =>
          \E k, l \in Solid : /\ k < l
                              /\ tracks[k].track_id = output[i].track_id
                              /\ tracks[l].track_id = output[j].track_id

\* C17: process() returns in every case: when a stage of the frame raises
\* (here the similarity search or the pose estimator) the call returns the
\* empty list, and the call that follows returns its records as usual.
C17_FailureGivesEmptyList ==
    /\ Aborted => output = <<>>
    /\ ~Aborted => Complete

\* a frame that returns a recognized track right after a frame that an
\* exception ended
C17_Witness ==
    /\ recovered /\ ~Aborted
    /\ \E j \in 1..Len(output) : output[j].status = "recognized"

\* C18: when the embedder fails, the similarity search raises or the
\* attendance call raises for a track, the frame is not aborted: it still
\* returns one record for every track that is not degenerate.
C18_FailureStaysLocal ==
    (\E k \in DOMAIN events :
        \/ events[k].embed = None
        \/ events[k].search.kind = "raise"
        \/ events[k].http = "exc") => Complete

-----------------------------------------------------------------------------
(* End to end *)

\* the output is one record, for the only track
OneRecord(status, student, conf) ==
    /\ Len(tracks) = 1
    /\ Len(output) = 1
    /\ output[1].track_id = tracks[1].track_id
    /\ output[1].status = status
    /\ output[1].student_id = student
    /\ output[1].confidence = conf

\* frame 1 of a pipeline: one face
FirstFrame ==
    /\ frame_id = 1
    /\ Len(detections) = 1 /\ ~Flat(detections[1])

\* frame 2, no reset since frame 1: the same single face, an embedder that
\* returns an embedding when called and a search that returns (7, 0.20) when
\* called
SecondFrame ==
    /\ frame_id = 2 /\ ~reset.first
    /\ Len(before) = 1 /\ Len(detections) = 1
    /\ before[1].bbox = detections[1] /\ ~Flat(detections[1])
    /\ Len(events) = 1
    /\ events[1].embed # None
    /\ events[1].search \in {NoSearch, SearchMatch("7", 20)}

\* frame 2 reports the track of frame 1 as student 7 with confidence 0.8, and
\* the side-effect call was issued once over the two frames
RecognizedOnSecond ==
    /\ OneRecord("recognized", "7", 8000)
    /\ tracks[1].track_id = before[1].track_id
    /\ events[1].called
    /\ ~events[1].acked_before /\ ~events[1].retry_before
    /\ events[1].was_locked = None /\ events[1].hist_before = <<>>

\* C19 as claimed: with the default configuration, frame 1 with one detection
\* gives one new track reported "unknown" without identity, and frame 2 with
\* the same detection, a working embedder and a search returning (7, 0.2)
\* gives the same track "recognized" as 7 with confidence 0.8 and one
\* side-effect call over the two frames.
C19_DefaultRecognizesOnSecond ==
    embed_interval = 15 =>
        /\ FirstFrame => (OneRecord("unknown", None, NoConf) /\ before = <<>>)
        /\ SecondFrame => RecognizedOnSecond

\* C19 as amended: the scenario holds with embed_interval = 2, which lets the
\* first embedding be taken on frame 2; with the default embed_interval of 15
\* no embedding is asked for before frame 15 and frame 2 still reports the
\* track "unknown", without identity and without side-effect call.
C19_RecognizesOnSecondWhenDue ==
    /\ (embed_interval \in {2, 15} /\ FirstFrame) =>
          /\ OneRecord("unknown", None, NoConf)
          /\ before = <<>>
          /\ events[1].embed = Unused /\ ~events[1].called
    /\ (embed_interval = 2 /\ SecondFrame) => RecognizedOnSecond
    /\ (embed_interval = 15 /\ SecondFrame) =>
          /\ OneRecord("unknown", None, NoConf)
          /\ tracks[1].track_id = before[1].track_id
          /\ events[1].embed = Unused /\ ~events[1].called

C19_Witness ==
    /\ embed_interval = 2
    /\ SecondFrame
    /\ events[1].embed = "e1"
    /\ output[1].status = "recognized"


\* C20: when the detector returns no box, process() returns the empty list,
\* the track store is left empty whatever it held, and the end-of-frame
\* pruning leaves the history map empty.
C20_NoDetectionEmptiesAll ==
    detections = <<>> =>
        output = <<>> /\ tracks = <<>> /\ DOMAIN track_history = {}

\* a frame without any box after a frame in which a track was recognized
C20_Witness ==
    /\ frame_id >= 2 /\ events = <<>> /\ ~reset.done
    /\ detections = <<>> /\ before # <<>>
    /\ acked # {}

-----------------------------------------------------------------------------
(* The list a frame returns *)

\* the record at position i of the output is the one of track k
RecordOf(i, k) ==
    /\ output[i].track_id = tracks[k].track_id
    /\ output[i].bbox = tracks[k].bbox
    /\ output[i].student_id = tracks[k].locked_id
    /\ output[i].confidence = tracks[k].locked_conf
    /\ output[i].status = IF tracks[k].locked_id = None THEN "unknown" ELSE "recognized"
    /\ DOMAIN output[i] = {"track_id", "bbox", "student_id", "confidence", "status",
                           "pitch", "yaw", "roll", "engagement"}
    /\ output[i].engagement \in {"high", "medium", "low"}

\* the number of tracks with a width and a height among the first k
SolidUpTo(k) == Cardinality({j \in Solid : j <= k})

\* C21: in a frame where no stage raises, process() returns one record per
\* track of the tracker whose box is not degenerate, in the tracker's order,
\* each with the track's track_id and bbox and with identity, confidence,
\* status, pitch, yaw, roll and engagement; with a search that returns
\* absent, a frame with one detected face returns exactly one record.
C21_OneRecordPerSolidTrack ==
    ~Aborted =>
        /\ Len(output) = Cardinality(Solid)
        /\ \A k \in Solid : RecordOf(SolidUpTo(k), k)
        /\ (/\ Len(detections) = 1 /\ ~Flat(detections[1])
            /\ \A j \in DOMAIN events : events[j].search.kind \in {"none", Unused})
           => Len(output) = 1

\* a frame of two tracks, the first with a closed box and the second recognized
C21_Witness ==
    /\ ~Aborted /\ Len(tracks) = 2 /\ Solid = {2}
    /\ Len(output) = 1 /\ output[1].status = "recognized"

\* a frame of one face the search does not know
OneUnknownFace ==
    /\ ~Aborted /\ Len(detections) = 1 /\ ~Flat(detections[1])
    /\ Len(events) = 1 /\ events[1].search.kind = "none"
    /\ Len(output) = 1

-----------------------------------------------------------------------------
(* The sessions of a server *)

\* process() is running for the session: begun, not yet returned
Running(s) == job[s].pc \in {"loop", "search", "post", "prune"}

\* C22: whatever the number of connected sessions, at most one process()
\* call runs at a time on the shared pipeline.
C22_OneCallAtATime ==
    \A s, t \in Sessions : s # t => ~(Running(s) /\ Running(t))

\* C23: a frame that arrives while the session's previous frame is being
\* processed is dropped: it is never handed to process().
C23_BusyFramesDropped ==
    \A s \in Sessions : job[s].pc # "none" => ~job[s].late

\* C24: POST /enroll resets the pipeline exactly when the embedding has 512
\* elements and the save succeeded; a wrong size is answered 422 and a failed
\* save 500, and then no row is saved and the dedup set, the history map and
\* the tracker are as they were.
C24_EnrollResetsOnSuccess ==
    [][api'.reply.endpoint = "enroll" =>
         LET r == api'.reply
         IN  /\ r.reloaded <=> (r.len = EmbeddingDim /\ r.save = "ok")
             /\ (r.len # EmbeddingDim) => (r.status = 422 /\ r.save = Unused)
             /\ (r.len = EmbeddingDim /\ r.save = "raise") => r.status = 500
             /\ (r.len = EmbeddingDim /\ r.save = "ok") => r.status = 200
             /\ IF r.status = 200
                THEN /\ api'.rows = api.rows + 1
                     /\ marked_attendance' = {} /\ track_history' = <<>>
                     /\ tracks' = <<>> /\ next_id' = 0
                ELSE /\ api'.rows = api.rows
                     /\ UNCHANGED <<marked_attendance, track_history, tracks, next_id>>
    ]_vars

\* an /enroll whose save failed, on a pipeline that holds a lock, a history
\* and a marked identity
C24_Witness ==
    /\ api.reply.endpoint = "enroll" /\ api.reply.status = 500
    /\ marked_attendance # {} /\ track_history # <<>>
    /\ \E k \in 1..Len(tracks) : tracks[k].locked_id # None

\* an /enroll that saved and reset a pipeline right after a frame
EnrolledAfterFrame ==
    /\ api.reply.endpoint = "enroll" /\ api.reply.status = 200
    /\ frame_id > 0 /\ tracks = <<>> /\ api.rows = 1

\* C25: a reset never interleaves with a call in flight: as long as no frame
\* has begun since reload_state() returned, the dedup set and the history map
\* are empty and the tracker has no track.
C25_NoWriteAcrossReset ==
    tally.since = 0 =>
        marked_attendance = {} /\ track_history = <<>> /\ tracks = <<>>

\* C26: with two sessions on the shared pipeline that match the same
\* identity, at most one side-effect call for it is answered 200 or 409
\* between two resets.
C26_OneCallPerIdentity ==
    \A id \in DOMAIN tally.posts : tally.posts[id] <= 1

-----------------------------------------------------------------------------
(* The dedup set and the history map of one pipeline, frame after frame *)

\* C27: in every state an identity is in the dedup set exactly when, since
\* the last reset or the creation of the pipeline, a side-effect call for it
\* was answered 200 or 409; a rejected or failed call does not add it, and
\* only reload_state() takes an identity out of the set.
C27_MarkedIffAcked ==
    /\ [](/\ marked_attendance = acked
          /\ \A k \in DOMAIN events :
                (events[k].called /\ events[k].http \notin {"200", "409"}
                 /\ ~events[k].acked_before /\ ~Aborted)
                => \/ events[k].search.student_id \notin marked_attendance
                   \/ \E j \in DOMAIN events :
                         /\ j > k
                         /\ events[j].search.student_id = events[k].search.student_id
                         /\ events[j].http \in {"200", "409"})
    /\ [][marked_attendance \subseteq marked_attendance' \/ reset'.done]_vars

\* a frame in which the call for one identity was rejected and that leaves
\* only the other identity, marked before, in the set
C27_Witness ==
    /\ marked_attendance # {}
    /\ \E k \in DOMAIN events :
          /\ events[k].called /\ events[k].http \in {"500", "exc"}
          /\ events[k].search.student_id \notin marked_attendance

\* C28: at the end of every process() call, the calls ended by a caught
\* exception included, every key of the history map is the track_id of a
\* track of the tracker's list.
C28_HistoryOfCurrentTracks ==
    DOMAIN track_history \subseteq TrackIds(tracks)

-----------------------------------------------------------------------------
(* The re-embedding gate *)

\* the track at position e.idx was in the tracker's list before the frame
Older(e) == e.track_id \in BeforeIds

\* the extractor returned an embedding in the visit
Embedded(e) == e.embed \notin {Unused, None}

\* C29: for a track whose box is not degenerate, the extractor is invoked in
\* frame f exactly when f minus the track's last_embed_frame is at least
\* embed_interval, a new track starting at 0 and the frame counter counting
\* every frame of the pipeline; after a successful embed the track's
\* last_embed_frame is f and its embedding and cache entry are the new
\* vector, so that the extractor is not invoked for it before f + embed_interval.
C29_EmbedGate ==
    \A k \in DOMAIN events :
        LET e == events[k]
            t == tracks[e.idx]
        IN  ~e.skipped =>
              /\ (e.embed # Unused) <=> (frame_id - e.embed_frame_was >= embed_interval)
              /\ ~Older(e) => (e.embed_frame_was = 0 /\ e.embedding_was = None)
              /\ IF Embedded(e)
                 THEN /\ t.last_embed_frame = frame_id
                      /\ t.embedding = e.embed
                      /\ Lookup(cache, e.track_id) = e.embed
                 ELSE /\ t.last_embed_frame = e.embed_frame_was
                      /\ frame_id < t.last_embed_frame + embed_interval
                         => e.embed = Unused
              /\ t.last_embed_frame <= frame_id

\* a track embedded in one frame and not due in the next
C29_Witness ==
    /\ Len(events) = 1 /\ ~events[1].skipped
    /\ events[1].embed = Unused
    /\ events[1].embed_frame_was = frame_id - 1
    /\ events[1].embedding_was # None

\* the first frame after a reset: the new track is embedded at once, the
\* frame counter having gone on
EmbeddedRightAfterReset ==
    /\ Len(events) = 1 /\ ~events[1].skipped
    /\ reset.first /\ ~Older(events[1])
    /\ Embedded(events[1])

\* the visit of the frame before to the track that e is about
Earlier(e) == {events[j] : j \in {i \in DOMAIN events : events[i].track_id = e.track_id}}

\* C30: when the extractor returns absent for a track, the track's
\* embedding, its last_embed_frame and the cache are as they were, so that an
\* embedding once present on a track is never absent later in its life, and
\* the extractor is tried again on the track's next frame.
C30_FailedEmbedKeepsEmbedding ==
    [][(frame_id' = frame_id + 1) =>
         \A k \in DOMAIN events' :
             LET e == events'[k]
                 t == tracks'[e.idx]
             IN  /\ (e.embed = None) =>
                       /\ t.embedding = e.embedding_was
                       /\ t.last_embed_frame = e.embed_frame_was
                       /\ Len(events') = 1 => cache' = cache
                 /\ (e.embedding_was # None) => (t.embedding # None)
                 /\ \A j \in 1..Len(tracks) :
                       (tracks[j].track_id = e.track_id /\ tracks[j].embedding # None)
                       => (e.embedding_was = tracks[j].embedding /\ t.embedding # None)
                 /\ \A p \in Earlier(e) :
                       (p.embed = None /\ ~e.skipped) => (e.embed # Unused)
    ]_vars

\* a track that holds an embedding and for which the extractor returns
\* absent, after a frame in which it had returned absent already
C30_Witness ==
    /\ Len(events) = 1 /\ events[1].embed = None
    /\ events[1].embedding_was # None
    /\ tracks[1].embedding # None
    /\ frame_id >= 3

-----------------------------------------------------------------------------
(* The tracker's update seen from the pipeline *)

\* the visit of the loop body found track t of the previous frame as update() left it
Carried(e, t) ==
    /\ e.embedding_was = t.embedding
    /\ e.embed_frame_was = t.last_embed_frame
    /\ e.was_locked = t.locked_id
    /\ e.was_conf = t.locked_conf
    /\ e.unknown_was = t.unknown_logged

\* C31: a track that update() pairs with a detection keeps its track_id, embedding,
\* last_embed_frame, lock (locked_id, locked_conf) and unknown_logged: the loop body
\* of the same frame finds them as the previous frame left them; only bbox (now a
\* box of this frame's detections) and last_seen (now this frame's time) are written
C31_PairedKeepsState ==
    [][frame_id' = frame_id + 1 =>
        \A k \in DOMAIN events' : \A j \in 1..Len(tracks) :
            tracks[j].track_id = events'[k].track_id =>
                /\ Carried(events'[k], tracks[j])
                /\ tracks'[events'[k].idx].track_id = tracks[j].track_id
                /\ tracks'[events'[k].idx].last_seen = now'
                /\ \E d \in 1..Len(detections') :
                       tracks'[events'[k].idx].bbox = detections'[d]]_vars

\* a locked track with an embedding was paired again and visited in the next frame
C31_PairedKeepsState_Witness ==
    \E k \in DOMAIN events :
        /\ events[k].track_id \in BeforeIds
        /\ events[k].was_locked # None
        /\ events[k].embedding_was # None
        /\ tracks[events[k].idx].last_seen = now

\* how many entries of the list of records or boxes l have the box b
BoxCount(l, b, boxOf(_)) == Cardinality({k \in 1..Len(l) : boxOf(l[k]) = b})

TrackBox(t) == t.bbox

DetBox(d) == d

\* C32: after every update the store holds exactly one track per detection of
\* that update: as many tracks as detections, box for box, all seen at the time
\* of the update; the previous tracks that were not paired are gone, and every
\* detection that was not paired has a track with a track_id no previous track had.
C32_OneTrackPerDetection ==
    /\ Len(tracks) = Len(detections)
    /\ \A k \in 1..Len(tracks) :
          /\ tracks[k].last_seen = now
          /\ BoxCount(tracks, tracks[k].bbox, TrackBox)
                = BoxCount(detections, tracks[k].bbox, DetBox)
    /\ Cardinality(BeforeIds \ TrackIds(tracks))
          = Len(before) - Min(Len(before), Len(detections))
    /\ Cardinality(Created) = Len(detections) - Min(Len(before), Len(detections))
    /\ Created \cap BeforeIds = {}

\* an update with fewer detections than tracks removed a track
C32_OneTrackPerDetection_Witness ==
    /\ Len(before) > Len(detections)
    /\ Len(detections) >= 1
    /\ BeforeIds \ TrackIds(tracks) # {}

\* the list of pairs P gives no row and no column twice
OneToOne(P) ==
    \A i, j \in 1..Len(P) : i # j => (P[i][1] # P[j][1] /\ P[i][2] # P[j][2])

\* every pair of any two boxes of the last update has IoU 0
AllIoUZero ==
    \A i \in 1..Len(before) : \A j \in 1..Len(detections) :
        iou(before[i].bbox, detections[j]) = 0

\* C33: whatever associate() returns for the tracks and detections of an update,
\* each track is in at most one pair and each detection is in at most one pair,
\* and the number of pairs is min(#tracks, #detections), also when every
\* (track, detection) pair has IoU 0: there is no cost gate.
C33_OneToOneMinPairs ==
    before # <<>> =>
        \A P \in associate(before, detections) :
            /\ OneToOne(P)
            /\ \A k \in 1..Len(P) :
                  P[k][1] \in 1..Len(before) /\ P[k][2] \in 1..Len(detections)
            /\ Len(P) = Min(Len(before), Len(detections))

\* two tracks met two detections, no pair of them overlapping, and both tracks
\* were paired
C33_OneToOneMinPairs_Witness ==
    /\ Len(before) = 2
    /\ Len(detections) = 2
    /\ AllIoUZero
    /\ TrackIds(tracks) = BeforeIds

\* the one-to-one sets of as many pairs as associate() returns for the last update
Assignments ==
    {P \in SUBSET ((1..Len(before)) \X (1..Len(detections))) :
        /\ Cardinality(P) = Min(Len(before), Len(detections))
        /\ \A p, q \in P : p # q => (p[1] # q[1] /\ p[2] # q[2])}

\* the paired tracks of the store are the tracks and boxes that P pairs
Fits(P) ==
    /\ {tracks[k].track_id : k \in 1..Cardinality(P)}
          = {before[p[1]].track_id : p \in P}
    /\ \A k \in 1..Cardinality(P) : \E p \in P :
          /\ tracks[k].track_id = before[p[1]].track_id
          /\ tracks[k].bbox = detections[p[2]]

\* the sum of 1 - IoU over the pairs of P
TotalCost(P) == SumSet(cost(before, detections), P)

\* C34: the pairs an update applies minimise the total cost, the sum of 1 - IoU
\* over the pairs: the paired tracks of the store are those of a one-to-one
\* assignment such that no other one-to-one assignment with the same number of
\* pairs has a strictly smaller total cost.
C34_MinimalTotalCost ==
    before # <<>> =>
        \E P \in Assignments :
            /\ Fits(P)
            /\ \A Q \in Assignments : TotalCost(P) <= TotalCost(Q)

\* a track was paired with a detection that is not the one it overlaps most,
\* because the total is smaller that way
C34_MinimalTotalCost_Witness ==
    /\ Len(before) = 2
    /\ Len(detections) = 2
    /\ \E k \in 1..2 : \E j \in 1..2 :
          /\ tracks[k].track_id = before[1].track_id
          /\ iou(before[1].bbox, detections[j]) > iou(before[1].bbox, tracks[k].bbox)
    /\ \A P, Q \in Assignments : P # Q => TotalCost(P) # TotalCost(Q)

-----------------------------------------------------------------------------
(* The "unknown face" event *)

\* the visit reached the else branch of the unlocked search: the track has an
\* embedding, holds no lock, and the search came back without a match within
\* the threshold
UnknownVisit(e) ==
    /\ ~e.skipped
    /\ e.embedding # None
    /\ e.was_locked = None
    /\ e.search.kind \in {"none", "match"}
    /\ ~Within(e)

\* the event is logged in an unknown visit of a track that has not logged it yet,
\* and in no other visit
LoggedOnFirst ==
    \A k \in DOMAIN events :
        events[k].unknown_event <=> (UnknownVisit(events[k]) /\ ~events[k].unknown_was)

\* a track has unknown_logged after a frame exactly when it had it before the
\* frame or logged the event in the frame: once set it stays for the track's life
RemembersLogged ==
    frame_id' = frame_id + 1 =>
        \A k \in 1..Len(tracks') :
            tracks'[k].unknown_logged <=>
                \/ \E j \in 1..Len(tracks) :
                      /\ tracks[j].track_id = tracks'[k].track_id
                      /\ tracks[j].unknown_logged
                \/ \E j \in DOMAIN events' :
                      /\ events'[j].track_id = tracks'[k].track_id
                      /\ events'[j].unknown_event

\* C35: the "unknown face" event is logged at most once per track: in the first
\* frame in which the track has an embedding, is not locked and the search gives
\* no match within the threshold, and in no later frame of the track, a lock and
\* an unlock in between included.
C35_UnknownLoggedOnce ==
    []LoggedOnFirst /\ [][RemembersLogged]_vars

\* a track that logged the event, was locked since and is unlocked again is
\* unknown once more, and nothing is logged
C35_UnknownLoggedOnce_Witness ==
    \E k \in DOMAIN events :
        /\ UnknownVisit(events[k])
        /\ events[k].unknown_was
        /\ events[k].hist_before # <<>>
        /\ ~events[k].unknown_event

-----------------------------------------------------------------------------
(* The threshold comparison *)

\* the visit ran a search that returned a match with a distance
Measured(e) == ~e.skipped /\ e.embedding # None /\ e.search.kind = "match"

\* the track of the visit holds a lock after the frame
LockedAfter(e) == tracks[e.idx].locked_id # None

\* C36: both branches compare the distance with the threshold the same way,
\* the threshold included: for a search that returns a distance, an unlocked
\* track is locked (to the returned identity) exactly when the distance is at
\* most the threshold, and a locked track is unlocked exactly when the distance
\* is strictly greater; at a distance equal to the threshold the unlocked track
\* locks and the locked track stays locked.
C36_InclusiveThreshold ==
    \A k \in DOMAIN events :
        Measured(events[k]) =>
            /\ events[k].was_locked = None =>
                  /\ LockedAfter(events[k]) <=> events[k].search.d <= SimThreshold
                  /\ LockedAfter(events[k]) =>
                        tracks[events[k].idx].locked_id = events[k].search.student_id
            /\ events[k].was_locked # None =>
                  /\ ~LockedAfter(events[k]) <=> events[k].search.d > SimThreshold
                  /\ LockedAfter(events[k]) => StillLocked(events[k])
            /\ events[k].search.d = SimThreshold =>
                  /\ LockedAfter(events[k])
                  /\ \A r \in RecordsOf(events[k].track_id) : r.status = "recognized"

\* a track locked at a distance equal to the threshold is re-validated at that
\* distance again and stays locked
C36_InclusiveThreshold_Witness ==
    \E k \in DOMAIN events :
        /\ Measured(events[k])
        /\ events[k].was_locked # None
        /\ events[k].search.d = SimThreshold
        /\ events[k].hist_before = <<100 - SimThreshold>>
        /\ LockedAfter(events[k])

-----------------------------------------------------------------------------
(* The size of the cache *)

\* the cache holds at most max_size entries, no key twice
SizeBounded ==
    /\ Len(cache) <= max_size
    /\ Cardinality(CacheKeys(cache)) = Len(cache)

\* a set() lets go of at most one key, and a remove() of a key the cache does
\* not hold leaves the cache as it is, order included
SmallSteps ==
    /\ op'.kind = "set" => Cardinality(CacheKeys(cache) \ CacheKeys(cache')) <= 1
    /\ (op'.kind = "remove" /\ op'.key \notin CacheKeys(cache)) => cache' = cache

\* C37: after any sequence of set(), get() and remove() the cache holds at most
\* max_size entries; a set() evicts at most one entry; a remove() of an absent
\* key changes nothing.
C37_SizeBounded ==
    []SizeBounded /\ [][SmallSteps]_vars

\* a remove() of an absent key on a cache filled to its capacity
C37_SizeBounded_Witness ==
    /\ op.kind = "remove"
    /\ op.key \notin op.keys
    /\ max_size = MaxCap
    /\ Len(cache) = max_size

-----------------------------------------------------------------------------
(* Two identities on one track *)

\* one face in front of the camera that the search takes for student 7 at
\* distance 0.20 or 0.60 and for student 8 at distance 0.10
TwoIds ==
    [frames |-> OneFace, horizon |-> OneTime,
     embeddings |-> {"e1"},
     searches |-> {SearchMatch("7", 20), SearchMatch("7", 60), SearchMatch("8", 10)},
     https |-> {"200"}, poses |-> {"ok"}, memory |-> 0]

TwoNext == process(TwoIds) \/ reload_embeddings

SpecTwo == OneInit /\ [][TwoNext]_vars

\* the raw confidences that matches to student s within the threshold give in world w
RawsOf(w, s) ==
    {raw_conf(m) : m \in {x \in w.searches : matches(x) /\ x.student_id = s}}

\* C38: a record that reports "recognized" with an identity reports the identity
\* that the search of that frame returned for the track; a locked track whose
\* re-validation returns another identity within the threshold does not go on
\* being reported with the locked one.
C38_ReportsSearchedIdentity ==
    \A j \in 1..Len(output) :
        output[j].status = "recognized" =>
            \E k \in DOMAIN events :
                /\ events[k].track_id = output[j].track_id
                /\ events[k].search.kind = "match"
                /\ events[k].search.student_id = output[j].student_id

\* C39: the raw confidences behind the smoothed confidence of a lock all come
\* from matches to the locked identity: when a track is locked, every entry of
\* its history is the raw confidence of a match to the identity it is locked to.
C39_HistoryOfOneIdentity ==
    \A k \in DOMAIN events :
        (LockVisit(events[k]) /\ events[k].track_id \in DOMAIN track_history) =>
            \A i \in DOMAIN track_history[events[k].track_id] :
                track_history[events[k].track_id][i]
                    \in RawsOf(TwoIds, events[k].search.student_id)

\* C40: over the life of a pipeline, reload_state() included, a track_id never
\* denotes two tracks, so the cache entry under a key k is an embedding computed
\* for the track with track_id k: the cache holds, under the id of a track of the
\* store, that track's embedding or nothing, never what another track left there.
C40_CacheOfOwnTracks ==
    \A k \in 1..Len(tracks) :
        Lookup(cache, tracks[k].track_id) \in {None, tracks[k].embedding}

=============================================================================
